---- MODULE Spec2Model ----
(***************************************************************************)
(* Verification model of mcp-fair-shake's legislation hierarchy parsers    *)
(* (parsers/federal_text.py, parsers/victorian_text.py) over the node      *)
(* model of models/legislation.py.                                         *)
(*                                                                         *)
(* Python objects have identity: a node is a cell of `heap` (its reference *)
(* is the index), a dict is a cell of `dicts`, and `self_registry[p]` is   *)
(* the dict the attribute self.registry of parser instance p points to.    *)
(* A parse call advances one step of parse() at a time: the registry       *)
(* reset, the creation of the Act, one iteration of the line loop of       *)
(* _parse_hierarchy (with the flush and the _extract_subsections call it   *)
(* makes), the flush after the loop, and the return.                       *)
(*                                                                         *)
(* A line is a record [shape, num, text]: the shape says which of the      *)
(* dialect's regular expressions the line matches, num is the captured     *)
(* number or letters and text the captured rest (title or content). The    *)
(* Federal re.sub calls that put every "Collapse" marker and section       *)
(* number on a line of its own come before: lines are those they leave.    *)
(***************************************************************************)
EXTENDS Integers, Sequences, FiniteSets, TLC

VARIABLES
    heap,           \* node objects, by reference (index)
    dicts,          \* dict objects: each a function canonical-ID -> reference
    self_registry,  \* parser instance -> index in dicts of its self.registry
    call,           \* parse call -> its frame (locals of parse/_parse_hierarchy)
    extract_log,    \* references of the Sections _extract_subsections was run on
    harness,        \* the caller: which calls it makes and what it feeds them
    canon,          \* a call of the canonical_id functions on one string
    xref,           \* a call of find_related_sections / parse_cross_references
    dispatch,       \* a ParserRegistry: its parsers list and the last get_parser
    disk,           \* the cache directory: path -> bytes of the file
    cache_call,     \* the CacheManager calls made and what they returned
    fetch_call,     \* a call of LegislationFetcher.fetch
    download,       \* a call of LegislationFetcher._download_with_retry
    writers         \* write_content calls in progress on one cache directory

\* the state of the hierarchy parsers
parser_vars == <<heap, dicts, self_registry, call, extract_log, harness>>

\* the calls that are followed step by step
stepwise == <<download, writers>>

\* the state of the other components
outside ==
    <<canon, xref, dispatch, disk, cache_call, fetch_call, download, writers>>

vars == <<heap, dicts, self_registry, call, extract_log, harness,
          canon, xref, dispatch, disk, cache_call, fetch_call, download, writers>>

---------------------------------------------------------------------------
\* Bounds of the model.

\* longest document (in lines) fed to a single parse
MaxLines == 4
\* longest document fed to each call when one parser instance is used again
MaxReuseLines == 2
\* longest document fed to each of two concurrent calls
MaxConcLines == 2
\* longest document parsed with and without its Division headings outside a Part
MaxDropLines == 4
\* longest document drawn from the full set of Paragraph markers
MaxMarkerLines == 3

---------------------------------------------------------------------------
\* Values.

\* Python's None, for an optional string field
None == "None"
\* no object
NoRef == 0

PartNumbers == {"1", "2"}
\* part numbers as a Federal heading writes them: "1-1" with the ASCII hyphen,
\* with the non-breaking hyphen U+2011 (written "~") and with the em dash U+2014
\* (written "--")
WrittenPartNumbers == {"1-1", "1~1", "1--1"}
DivisionNumbers == {"1"}
SectionNumbers == {"1", "2"}
SubsectionNumbers == {"1"}
ParagraphLetters == {"a"}
\* letters of Paragraph markers, and of markers shaped like Roman numerals
AlphabeticLetters == {"a", "b", "c", "aa", "ba", "z"}
RomanLetters == {"i", "ii", "iii", "iv", "v", "vi", "vii", "viii", "ix", "x"}

Line(shape, num, text) == [shape |-> shape, num |-> num, text |-> text]

\* the lines a document is made of, after preprocessing and text.split("\n")
PartLines == {Line("part", n, "P") : n \in PartNumbers}
DivisionLines == {Line("division", n, "D") : n \in DivisionNumbers}
SectionLines == {Line("section", n, "S") : n \in SectionNumbers}
SubsectionLines == {Line("subsec", n, "x") : n \in SubsectionNumbers}
ParagraphLines == {Line("para", n, "y") : n \in ParagraphLetters}
TextLines == {Line("text", "", "t")}
BlankLines == {Line("blank", "", "")}
\* a line that starts with "-" (navigation, skipped by the Federal parser)
NavLines == {Line("nav", "", "-n")}
\* "[Page N]" (removed by the Victorian preprocessing)
PageLines == {Line("page", "", "[Page 1]")}

\* the groups of r"^Collapse(Part [\d\-U+2011]+)[U+2014\-](.+)$" for the heading
\* "CollapsePart <w>--P", after .replace("Part ", ""): the number class takes the
\* two hyphens, the em dash ends the number and what follows it is the title
federal_part_groups(w) ==
    IF w = "1--1" THEN Line("part", "1", "1--P") ELSE Line("part", w, "P")

\* the Part headings of a Federal document
FederalPartLines == {federal_part_groups(w) : w \in WrittenPartNumbers}

\* Paragraph-shaped marker lines over the full set of letters
MarkerLines == {Line("para", n, "y") : n \in AlphabeticLetters \cup RomanLetters}

AllLines ==
    PartLines \cup DivisionLines \cup SectionLines \cup SubsectionLines
        \cup ParagraphLines \cup TextLines \cup BlankLines \cup NavLines \cup PageLines

\* a smaller alphabet for the runs that make several calls
FewLines ==
    {Line("part", "1", "P"), Line("division", "1", "D"), Line("section", "1", "S"),
     Line("subsec", "1", "x"), Line("text", "", "t"), Line("blank", "", "")}

\* the lines of a document read by a parser of the dialect: a Federal Part number
\* is written with hyphens, a Victorian one (r"^Part ([\d\w]+)...") without
LinesOf(dialect) ==
    IF dialect = "federal" THEN (AllLines \ PartLines) \cup FederalPartLines
    ELSE AllLines

\* the lines of a document made to exercise the Paragraph markers
FewMarkerLines ==
    MarkerLines \cup {Line("part", "1", "P"), Line("division", "1", "D"),
                      Line("section", "1", "S"), Line("subsec", "1", "x"),
                      Line("text", "", "t"), Line("blank", "", "")}

\* metadata records of two different documents
Metadata ==
    {[canonical_id |-> "/au-federal/fwa/2009", jurisdiction |-> "au-federal",
      year |-> 2009, title |-> "Fair Work Act 2009"],
     [canonical_id |-> "/au-victoria/ohs/2004", jurisdiction |-> "au-victoria",
      year |-> 2004, title |-> "Occupational Health and Safety Act 2004"]}

\* required = ["canonical_id", "jurisdiction", "year", "title"]
required == <<"canonical_id", "jurisdiction", "year", "title">>
RequiredKeys == {required[i] : i \in DOMAIN required}

\* metadata dicts that lack one or more of the required keys
IncompleteMetadata ==
    {[k \in K |-> m[k]] : K \in (SUBSET RequiredKeys) \ {RequiredKeys},
                          m \in {n \in Metadata : n.year = 2009}}

\* a list that names only the first absent key
missing_first_only(metadata) ==
    LET all == SelectSeq(required, LAMBDA k : k \notin DOMAIN metadata)
    IN  IF all = <<>> THEN <<>> ELSE <<all[1]>>

\* missing = [k for k in required if k not in metadata]
missing(metadata) == SelectSeq(required, LAMBDA k : k \notin DOMAIN metadata)

\* parser instances: two of each class
Parsers == {"federal1", "federal2", "victorian1", "victorian2"}
Dialect(p) == IF p \in {"federal1", "federal2"} THEN "federal" ELSE "victorian"

Calls == 1..3

---------------------------------------------------------------------------
\* models/legislation.py: the node classes, with the fields the parsers set or
\* the properties read (number, the dates, references and referenced_by keep
\* their defaults in every node).

Act(id, title, jurisdiction, year) ==
    [type |-> "act", id |-> id, title |-> title, content |-> "", parent_id |-> None,
     children_ids |-> <<>>, jurisdiction |-> jurisdiction, year |-> year,
     parts |-> <<>>, sections |-> <<>>]

Part(id, title, act_id, part_number, parent_id) ==
    [type |-> "part", id |-> id, title |-> title, content |-> "",
     parent_id |-> parent_id, children_ids |-> <<>>, act_id |-> act_id,
     part_number |-> part_number, divisions |-> <<>>, sections |-> <<>>]

Division(id, title, part_id, division_number, parent_id) ==
    [type |-> "division", id |-> id, title |-> title, content |-> "",
     parent_id |-> parent_id, children_ids |-> <<>>, part_id |-> part_id,
     division_number |-> division_number, sections |-> <<>>]

\* a Section's content is the "\n"-join of lines: kept as the sequence of lines
Section(id, title, act_id, section_number, part_id, division_id, parent_id) ==
    [type |-> "section", id |-> id, title |-> title, content |-> <<>>,
     parent_id |-> parent_id, children_ids |-> <<>>, act_id |-> act_id,
     section_number |-> section_number, part_id |-> part_id,
     division_id |-> division_id, subsections |-> <<>>]

Subsection(id, content, section_id, subsection_number, parent_id) ==
    [type |-> "subsection", id |-> id, title |-> "", content |-> content,
     parent_id |-> parent_id, children_ids |-> <<>>, section_id |-> section_id,
     subsection_number |-> subsection_number, paragraphs |-> <<>>]

Paragraph(id, content, subsection_id, paragraph_letter, parent_id) ==
    [type |-> "paragraph", id |-> id, title |-> "", content |-> content,
     parent_id |-> parent_id, children_ids |-> <<>>,
     subsection_id |-> subsection_id, paragraph_letter |-> paragraph_letter]

\* every ID a node lists as a child, over all its child-list fields
ChildIds(n) ==
    LET ids(s) == {s[i] : i \in DOMAIN s} IN
    ids(n.children_ids)
        \cup (IF n.type \in {"act"} THEN ids(n.parts) ELSE {})
        \cup (IF n.type \in {"part"} THEN ids(n.divisions) ELSE {})
        \cup (IF n.type \in {"act", "part", "division"} THEN ids(n.sections) ELSE {})
        \cup (IF n.type \in {"section"} THEN ids(n.subsections) ELSE {})
        \cup (IF n.type \in {"subsection"} THEN ids(n.paragraphs) ELSE {})

---------------------------------------------------------------------------
\* The store: the heap and the dicts a step of a call reads and writes.

Store(h, d, lg) == [heap |-> h, dicts |-> d, log |-> lg]

\* a new object; its reference is Len(st.heap) afterwards
New(st, node) == [st EXCEPT !.heap = Append(@, node)]

\* self.registry[id] = <object ref>, on dict object d
RegistrySet(st, d, id, ref) ==
    [st EXCEPT !.dicts[d] = (id :> ref) @@ @]

\* the f-strings that build the IDs
part_id(act_id, part_number) == act_id \o "/part-" \o part_number
div_id(current_part_id, div_number) == current_part_id \o "/div-" \o div_number
section_id(act_id, section_number) == act_id \o "/s" \o section_number
subsec_id(sec_id, subsec_number) == sec_id \o "/" \o subsec_number
para_id(owner_id, para_letter) == owner_id \o "/" \o para_letter

---------------------------------------------------------------------------
\* _extract_subsections (federal_text.py 202-300, victorian_text.py 243-367).

\* " ".join(content_lines)
RECURSIVE JoinSpace(_)
JoinSpace(strs) ==
    IF strs = <<>> THEN ""
    ELSE IF Len(strs) = 1 THEN strs[1]
    ELSE strs[1] \o " " \o JoinSpace(Tail(strs))

\* line.strip() of a content line: a marker line reads "(num) text"
Stripped(line) ==
    IF line.shape \in {"subsec", "para"} THEN "(" \o line.num \o ")" \o " " \o line.text
    ELSE line.text

\* what follows the closing parenthesis of a marker, as the regex captures it
MarkerRest(line) == " " \o line.text

\* Victorian: re.match(r"^S\.\s+\d+") or re.match(r"^Pt\.\s+\d+")
is_amendment_note(line) == line.shape = "amend"

\* strings over {i, v, x}, up to four letters
IvxStrings ==
    LET one == {"i", "v", "x"}
        two == {a \o b : a \in one, b \in one}
    IN  one \cup two \cup {a \o b : a \in one, b \in two}
            \cup {a \o b : a \in two, b \in two}

\* no marker is taken for a Roman numeral
_is_roman_numeral_never(text) == FALSE

\* re.match(r"^[ivx]+$", text.lower())
_is_roman_numeral(text) == text \in IvxStrings

\* re.match(r"^\((\d+[a-z]*)\)(.+)$", line) / r"^\s+\((\d+[a-z]*)\)(.*)$"
subsec_match(dialect, line) == line.shape = "subsec"

\* re.match(r"^\(([a-z]+)\)(.+)$", line) / r"^\s+\(([a-z]+)\)(.*)$"
para_match(dialect, line) == line.shape = "para"

\* the initial content of a new Subsection or Paragraph
InitialContent(dialect, line) ==
    IF dialect = "federal" THEN MarkerRest(line) ELSE line.text

\* the locals of _extract_subsections, with the store it writes
Extraction(st, sub, para, buf) ==
    [st |-> st, current_subsection |-> sub, current_paragraph |-> para,
     content_lines |-> buf]

\* a save that tests the open Subsection first: the collected lines go to it
\* although a Paragraph is open
SaveCollectedSubsectionFirst(x) ==
    IF x.current_subsection # NoRef /\ x.content_lines # <<>> THEN
        [x EXCEPT !.st.heap[x.current_subsection].content =
                      @ \o " " \o JoinSpace(x.content_lines),
                  !.content_lines = <<>>]
    ELSE IF x.current_paragraph # NoRef /\ x.content_lines # <<>> THEN
        [x EXCEPT !.st.heap[x.current_paragraph].content =
                      @ \o " " \o JoinSpace(x.content_lines),
                  !.content_lines = <<>>]
    ELSE x

\* the two-branch save before a new marker and after the loop: the collected
\* lines go to the open Paragraph, else to the open Subsection, else stay collected
SaveCollected(x) ==
    IF x.current_paragraph # NoRef /\ x.content_lines # <<>> THEN
        [x EXCEPT !.st.heap[x.current_paragraph].content =
                      @ \o " " \o JoinSpace(x.content_lines),
                  !.content_lines = <<>>]
    ELSE IF x.current_subsection # NoRef /\ x.content_lines # <<>> THEN
        [x EXCEPT !.st.heap[x.current_subsection].content =
                      @ \o " " \o JoinSpace(x.content_lines),
                  !.content_lines = <<>>]
    ELSE x

\* a Subsection marker that leaves the open Paragraph open
NewSubsectionParagraphKept(x0, sec, line, dialect, d) ==
    LET x == SaveCollected(x0)
        sid == x.st.heap[sec].id
        id == subsec_id(sid, line.num)
        ref == Len(x.st.heap) + 1
        st1 == New(x.st, Subsection(id, InitialContent(dialect, line), sid, line.num, sid))
        st2 == RegistrySet(st1, d, id, ref)
        st3 == [st2 EXCEPT !.heap[sec].subsections = Append(@, id),
                           !.heap[sec].children_ids = Append(@, id)]
    IN  [x EXCEPT !.st = st3, !.current_subsection = ref]

\* a Subsection marker: federal_text.py 223-250, victorian_text.py 273-298
NewSubsection(x0, sec, line, dialect, d) ==
    LET x == SaveCollected(x0)
        sid == x.st.heap[sec].id
        id == subsec_id(sid, line.num)
        ref == Len(x.st.heap) + 1
        st1 == New(x.st, Subsection(id, InitialContent(dialect, line), sid, line.num, sid))
        st2 == RegistrySet(st1, d, id, ref)
        st3 == [st2 EXCEPT !.heap[sec].subsections = Append(@, id),
                           !.heap[sec].children_ids = Append(@, id)]
    IN  [x EXCEPT !.st = st3, !.current_subsection = ref, !.current_paragraph = NoRef]

\* a Paragraph marker whose key is never put in the registry
NewParagraphUnregistered(x0, sec, line, dialect, d) ==
    LET x == SaveCollected(x0)
        sub == x.current_subsection
        owner == IF sub # NoRef THEN sub ELSE sec
        id == para_id(x.st.heap[owner].id, line.num)
        ref == Len(x.st.heap) + 1
        st1 == New(x.st, Paragraph(id, InitialContent(dialect, line),
                                   IF sub # NoRef THEN x.st.heap[sub].id ELSE None,
                                   line.num, x.st.heap[owner].id))
        st3 == IF sub # NoRef
               THEN [st1 EXCEPT !.heap[sub].paragraphs = Append(@, id),
                                !.heap[sub].children_ids = Append(@, id)]
               ELSE [st1 EXCEPT !.heap[sec].children_ids = Append(@, id)]
    IN  [x EXCEPT !.st = st3, !.current_paragraph = ref]

\* a Paragraph marker: federal_text.py 254-291, victorian_text.py 305-345
NewParagraph(x0, sec, line, dialect, d) ==
    LET x == SaveCollected(x0)
        sub == x.current_subsection
        owner == IF sub # NoRef THEN sub ELSE sec
        id == para_id(x.st.heap[owner].id, line.num)
        ref == Len(x.st.heap) + 1
        st1 == New(x.st, Paragraph(id, InitialContent(dialect, line),
                                   IF sub # NoRef THEN x.st.heap[sub].id ELSE None,
                                   line.num, x.st.heap[owner].id))
        st2 == RegistrySet(st1, d, id, ref)
        st3 == IF sub # NoRef
               THEN [st2 EXCEPT !.heap[sub].paragraphs = Append(@, id),
                                !.heap[sub].children_ids = Append(@, id)]
               ELSE [st2 EXCEPT !.heap[sec].children_ids = Append(@, id)]
    IN  [x EXCEPT !.st = st3, !.current_paragraph = ref]

\* one iteration of the extractor's loop
ExtractLine(x, sec, line, dialect, d) ==
    IF Stripped(line) = "" THEN x
    ELSE IF dialect = "victorian" /\ is_amendment_note(line) THEN x
    ELSE IF subsec_match(dialect, line) THEN NewSubsection(x, sec, line, dialect, d)
    ELSE IF para_match(dialect, line)
            /\ (dialect = "federal" \/ ~_is_roman_numeral(line.num))
        THEN NewParagraph(x, sec, line, dialect, d)
    ELSE [x EXCEPT !.content_lines = Append(@, Stripped(line))]

RECURSIVE ExtractLoop(_, _, _, _, _)
ExtractLoop(x, sec, lines, dialect, d) ==
    IF lines = <<>> THEN x
    ELSE ExtractLoop(ExtractLine(x, sec, Head(lines), dialect, d), sec, Tail(lines),
                     dialect, d)

\* self._extract_subsections(section), on the dict self.registry names
_extract_subsections(st, sec, dialect, d) ==
    LET logged == [st EXCEPT !.log = Append(@, sec)] IN
    IF logged.heap[sec].content = <<>> THEN logged
    ELSE SaveCollected(
             ExtractLoop(Extraction(logged, NoRef, NoRef, <<>>), sec,
                         logged.heap[sec].content, dialect, d)).st

---------------------------------------------------------------------------
\* parse and _parse_hierarchy (federal_text.py 27-200, victorian_text.py 35-241).

\* the frame of a parse call. Besides the locals: consumed and made record, for
\* each line the loop has read, the line and the node it created or made current
\* (NoRef if none); created holds the objects the call constructed; result is the
\* returned registry as the caller sees it at the return (each key with its node);
\* valid_utf8 says whether content.decode("utf-8") succeeds and error is the
\* exception the call raised, if any
IdleFrame ==
    [pc |-> "idle", self |-> "federal1", metadata |-> CHOOSE m \in Metadata : TRUE,
     valid_utf8 |-> TRUE, error |-> [type |-> None, keys |-> <<>>],
     act |-> NoRef, current_part |-> NoRef, current_division |-> NoRef,
     current_section |-> NoRef, collecting_content |-> FALSE, content_lines |-> <<>>,
     consumed |-> <<>>, made |-> <<>>, created |-> {}, ret_act |-> NoRef,
     ret_registry |-> NoRef, result |-> <<>>]

\* the classification of a line by _parse_hierarchy
\* Federal: "if not line or line.startswith("-")". Victorian: "if not line.strip()",
\* and the lines _preprocess_pdf_artifacts removed never reach the loop
skip_line(dialect, line) ==
    \/ line.shape = "blank"
    \/ dialect = "federal" /\ line.shape = "nav"
    \/ dialect = "victorian" /\ line.shape = "page"
part_match(dialect, line) == line.shape = "part"
div_match(dialect, line) == line.shape = "division"
section_match(dialect, line) == line.shape = "section"

\* the f-strings of the titles; their em dash (U+2014) is written "--"
PartTitle(line) == "Part " \o line.num \o "--" \o line.text
DivisionTitle(line) == "Division " \o line.num \o "--" \o line.text

\* the registry is never replaced at the start of parse
ResetRegistryKept(d, sr, p) == [dicts |-> d, self_registry |-> sr]

\* the registry is emptied in place (self.registry.clear()): no new dict object
ResetRegistryCleared(d, sr, p) ==
    [dicts |-> [d EXCEPT ![sr[p]] = <<>>], self_registry |-> sr]

\* self.registry = {} : a new dict object, which the attribute now names
ResetRegistry(d, sr, p) ==
    [dicts |-> Append(d, <<>>), self_registry |-> [sr EXCEPT ![p] = Len(d) + 1]]

\* "if current_section and content_lines": the previous Section's content is set
\* and the extractor runs on it; the caller then empties content_lines
FlushNeeded(f) == f.current_section # NoRef /\ f.content_lines # <<>>

\* the content is set but the extractor is not run
FlushContentOnly(st, f, d) ==
    IF FlushNeeded(f)
    THEN [st EXCEPT !.heap[f.current_section].content = f.content_lines]
    ELSE st

Flush(st, f, d) ==
    IF FlushNeeded(f)
    THEN _extract_subsections(
             [st EXCEPT !.heap[f.current_section].content = f.content_lines],
             f.current_section, Dialect(f.self), d)
    ELSE st

AfterFlush(f) == IF FlushNeeded(f) THEN [f EXCEPT !.content_lines = <<>>] ELSE f

\* the Victorian test "part_id not in self.registry"; the Federal parser has none
part_is_new_always(dialect, registry, pid) == TRUE

part_is_new(dialect, registry, pid) ==
    dialect = "federal" \/ pid \notin DOMAIN registry

\* the Division cursor is left as it was by a Part heading
division_after_part_kept(current_division) == current_division

\* current_division = None, after a Part heading
division_after_part(current_division) == NoRef

\* the parent of a new Section: the open Division, else the open Part, else the Act
section_owner(f) ==
    IF f.current_division # NoRef THEN f.current_division
    ELSE IF f.current_part # NoRef THEN f.current_part
    ELSE f.act

\* the body of the loop for a Part heading
PartStep(st0, f0, line, d) ==
    LET st == Flush(st0, f0, d)
        f == AfterFlush(f0)
        act_id == st.heap[f.act].id
        pid == part_id(act_id, line.num)
        fresh == part_is_new(Dialect(f.self), st.dicts[d], pid)
        ref == IF fresh THEN Len(st.heap) + 1 ELSE st.dicts[d][pid]
        st1 == New(st, Part(pid, PartTitle(line), act_id, line.num, act_id))
        st2 == RegistrySet(st1, d, pid, ref)
        st3 == [st2 EXCEPT !.heap[f.act].parts = Append(@, pid),
                           !.heap[f.act].children_ids = Append(@, pid)]
    IN  [st |-> IF fresh THEN st3 ELSE st,
         f |-> [f EXCEPT !.current_part = ref,
                         !.current_division = division_after_part(@),
                         !.consumed = Append(@, line), !.made = Append(@, ref)]]

\* the body of the loop for a Division heading
DivisionStep(st0, f0, line, d) ==
    LET st == Flush(st0, f0, d)
        f == AfterFlush(f0)
        open == f.current_part # NoRef
        cpid == st.heap[f.current_part].id
        did == div_id(cpid, line.num)
        ref == Len(st.heap) + 1
        st1 == New(st, Division(did, DivisionTitle(line), cpid, line.num, cpid))
        st2 == RegistrySet(st1, d, did, ref)
        st3 == [st2 EXCEPT !.heap[f.current_part].divisions = Append(@, did),
                           !.heap[f.current_part].children_ids = Append(@, did)]
    IN  [st |-> IF open THEN st3 ELSE st,
         f |-> [f EXCEPT !.current_division = IF open THEN ref ELSE @,
                         !.consumed = Append(@, line),
                         !.made = Append(@, IF open THEN ref ELSE NoRef)]]

\* a Section heading whose ID is put at the front of the owner's lists
SectionStepPrepended(st0, f0, line, d) ==
    LET st == Flush(st0, f0, d)
        f == AfterFlush(f0)
        act_id == st.heap[f.act].id
        sid == section_id(act_id, line.num)
        ref == Len(st.heap) + 1
        owner == section_owner(f)
        st1 == New(st, Section(sid, line.text, act_id, line.num,
                     IF f.current_part # NoRef THEN st.heap[f.current_part].id ELSE None,
                     IF f.current_division # NoRef THEN st.heap[f.current_division].id
                                                   ELSE None,
                     st.heap[owner].id))
        st2 == RegistrySet(st1, d, sid, ref)
        st3 == [st2 EXCEPT !.heap[owner].sections = <<sid>> \o @,
                           !.heap[owner].children_ids = <<sid>> \o @]
    IN  [st |-> st3,
         f |-> [f EXCEPT !.current_section = ref, !.collecting_content = TRUE,
                         !.consumed = Append(@, line), !.made = Append(@, ref)]]

\* the body of the loop for a Section heading
SectionStep(st0, f0, line, d) ==
    LET st == Flush(st0, f0, d)
        f == AfterFlush(f0)
        act_id == st.heap[f.act].id
        sid == section_id(act_id, line.num)
        ref == Len(st.heap) + 1
        owner == section_owner(f)
        st1 == New(st, Section(sid, line.text, act_id, line.num,
                     IF f.current_part # NoRef THEN st.heap[f.current_part].id ELSE None,
                     IF f.current_division # NoRef THEN st.heap[f.current_division].id
                                                   ELSE None,
                     st.heap[owner].id))
        st2 == RegistrySet(st1, d, sid, ref)
        st3 == [st2 EXCEPT !.heap[owner].sections = Append(@, sid),
                           !.heap[owner].children_ids = Append(@, sid)]
    IN  [st |-> st3,
         f |-> [f EXCEPT !.current_section = ref, !.collecting_content = TRUE,
                         !.consumed = Append(@, line), !.made = Append(@, ref)]]

\* every other line is collected, whether a Section is open or not
ContentStepAlways(st, f, line, d) ==
    [st |-> st,
     f |-> [f EXCEPT !.content_lines = Append(@, line),
                     !.consumed = Append(@, line), !.made = Append(@, NoRef)]]

\* a line that matches no pattern is rejected with an error
ContentStepRaising(st, f, line, d) ==
    [st |-> st,
     f |-> [f EXCEPT !.pc = "raised",
                     !.error = [type |-> "ValueError", keys |-> <<>>],
                     !.consumed = Append(@, line), !.made = Append(@, NoRef)]]

\* the body of the loop for any other line
ContentStep(st, f, line, d) ==
    [st |-> st,
     f |-> [f EXCEPT !.content_lines =
                        IF f.collecting_content /\ f.current_section # NoRef
                        THEN Append(@, line) ELSE @,
                     !.consumed = Append(@, line), !.made = Append(@, NoRef)]]

---------------------------------------------------------------------------
\* The caller.

\* the lines of a document that is parsed in between two parses of another
OtherLines == {Line("part", "1", "P"), Line("section", "1", "S")}

MaxLen(c) ==
    CASE harness.mode = "single" -> MaxLines
      [] harness.mode = "reuse" -> MaxReuseLines
      [] harness.mode = "drop" -> MaxDropLines
      [] harness.mode = "markers" -> MaxMarkerLines
      [] OTHER -> MaxConcLines

\* the class of a line in the loop of _parse_hierarchy: the first test it passes
LineKind(dialect, line) ==
    CASE skip_line(dialect, line) -> "skip"
      [] part_match(dialect, line) -> "part"
      [] div_match(dialect, line) -> "division"
      [] section_match(dialect, line) -> "section"
      [] OTHER -> "content"

\* the positions, among the lines call c read, of the Division headings that were
\* met while no Part was open
OrphanDivisions(f) ==
    {i \in DOMAIN f.consumed :
        LineKind(Dialect(f.self), f.consumed[i]) = "division" /\ f.made[i] = NoRef}

\* the document of call c with those lines removed
WithoutOrphanDivisions(f) ==
    LET keep == {i \in DOMAIN f.consumed : i \notin OrphanDivisions(f)}
        RECURSIVE pick(_)
        pick(i) == IF i > Len(f.consumed) THEN <<>>
                   ELSE IF i \in keep THEN <<f.consumed[i]>> \o pick(i + 1)
                   ELSE pick(i + 1)
    IN  pick(1)

\* whether call c is given a document derived from the one call 1 read
Repeats(c) ==
    \/ harness.mode = "reuse" /\ c = 3
    \/ harness.mode = "drop" /\ c = 2

\* that document: the same again, or the same without the orphan Division headings
Replayed(c) ==
    IF harness.mode = "drop" THEN WithoutOrphanDivisions(call[1])
    ELSE call[1].consumed

\* the lines call c may read next
Offered(c) ==
    LET f == call[c]
        k == Len(f.consumed) + 1
    IN  IF Repeats(c)
        THEN (IF k <= Len(Replayed(c)) THEN {Replayed(c)[k]} ELSE {})
        ELSE IF k > MaxLen(c) THEN {}
        ELSE CASE harness.mode = "single" -> LinesOf(Dialect(f.self))
               [] harness.mode = "reuse" /\ c = 2 -> OtherLines
               [] harness.mode = "markers" -> FewMarkerLines
               [] OTHER -> FewLines

\* whether the document of call c may end here
MayEnd(c) == Repeats(c) => Len(call[c].consumed) = Len(Replayed(c))

\* the calls the caller may start, on which instance and with which metadata
MayStart(c, p, m, u) ==
    CASE harness.mode = "single" ->
            c = 1 /\ p \in {"federal1", "victorian1"}
                /\ (DOMAIN m = RequiredKeys => m.canonical_id = "/au-federal/fwa/2009")
      [] harness.mode = "markers" ->
            c = 1 /\ p \in {"federal1", "victorian1"} /\ u /\ m \in Metadata
                /\ m.canonical_id = "/au-federal/fwa/2009"
      [] harness.mode = "drop" ->
            /\ u /\ m \in Metadata /\ m.canonical_id = "/au-federal/fwa/2009"
            /\ \/ c = 1 /\ p \in {"federal1", "victorian1"}
               \/ c = 2 /\ call[1].pc = "done" /\ Dialect(p) = Dialect(call[1].self)
      [] harness.mode = "reuse" ->
            /\ u /\ m \in Metadata
            /\ IF c = 1 THEN p \in {"federal1", "victorian1"}
                             /\ m.canonical_id = "/au-federal/fwa/2009"
               ELSE call[c - 1].pc = "done" /\ Dialect(p) = Dialect(call[1].self)
                    /\ (c = 3 => m = call[1].metadata)
      [] OTHER ->
            /\ u /\ m \in Metadata
            /\ \/ c = 1 /\ p \in {"federal1", "victorian1"}
                        /\ m.canonical_id = "/au-federal/fwa/2009"
               \/ c = 2 /\ call[1].pc # "idle" /\ Dialect(p) = Dialect(call[1].self)
                        /\ m.canonical_id # "/au-federal/fwa/2009"

\* a registry as its holder sees it: each key with the node it maps to
View(registry, h) == [k \in DOMAIN registry |-> h[registry[k]]]

---------------------------------------------------------------------------
\* The steps of a call.

\* parse, line 41 / 51: self.registry = {}
ParseReset(c) ==
    /\ call[c].pc = "idle"
    /\ \E p \in Parsers, m \in Metadata \cup IncompleteMetadata, u \in BOOLEAN :
        /\ MayStart(c, p, m, u)
        /\ LET r == ResetRegistry(dicts, self_registry, p) IN
            /\ dicts' = r.dicts
            /\ self_registry' = r.self_registry
        /\ call' = [call EXCEPT ![c] = [IdleFrame EXCEPT !.pc = "validate", !.self = p,
                                                         !.metadata = m,
                                                         !.valid_utf8 = u]]
    /\ UNCHANGED <<heap, extract_log, harness, outside>>

\* parse, lines 44-47 / 54-57: raise ValueError(f"Missing required metadata: ...")
ValidateMetadata(c) ==
    LET f == call[c]
        absent == missing(f.metadata)
    IN  /\ f.pc = "validate"
        /\ call' = [call EXCEPT ![c] =
                       IF absent # <<>>
                       THEN [f EXCEPT !.pc = "raised",
                                      !.error = [type |-> "ValueError", keys |-> absent]]
                       ELSE [f EXCEPT !.pc = "decode"]]
        /\ UNCHANGED <<heap, dicts, self_registry, extract_log, harness, outside>>

\* parse, line 50 / 60: text = content.decode("utf-8")
Decode(c) ==
    LET f == call[c] IN
    /\ f.pc = "decode"
    /\ call' = [call EXCEPT ![c] =
                   IF f.valid_utf8 THEN [f EXCEPT !.pc = "create"]
                   ELSE [f EXCEPT !.pc = "raised",
                                  !.error = [type |-> "UnicodeDecodeError",
                                             keys |-> <<>>]]]
    /\ UNCHANGED <<heap, dicts, self_registry, extract_log, harness, outside>>

\* parse, lines 60-67 / 68-75: the Act is built and put in self.registry
CreateAct(c) ==
    LET f == call[c]
        m == f.metadata
        ref == Len(heap) + 1
        st == RegistrySet(
                  New(Store(heap, dicts, extract_log),
                      Act(m.canonical_id, m.title, m.jurisdiction, m.year)),
                  self_registry[f.self], m.canonical_id, ref)
    IN  /\ f.pc = "create"
        /\ heap' = st.heap
        /\ dicts' = st.dicts
        /\ call' = [call EXCEPT ![c] = [f EXCEPT !.pc = "loop", !.act = ref,
                                                 !.created = {ref}]]
        /\ UNCHANGED <<self_registry, extract_log, harness, outside>>

\* the effect of one loop iteration r = [st, f] of call c
Iterate(c, r) ==
    /\ heap' = r.st.heap
    /\ dicts' = r.st.dicts
    /\ extract_log' = r.st.log
    /\ call' = [call EXCEPT ![c] =
                   [r.f EXCEPT !.created = @ \cup (Len(heap) + 1 .. Len(r.st.heap))]]
    /\ UNCHANGED <<self_registry, harness, outside>>

\* "if not line ...: continue"
SkipLine(c) ==
    /\ call[c].pc = "loop"
    /\ \E line \in Offered(c) :
        /\ skip_line(Dialect(call[c].self), line)
        /\ call' = [call EXCEPT ![c].consumed = Append(@, line),
                                ![c].made = Append(@, NoRef)]
    /\ UNCHANGED <<heap, dicts, self_registry, extract_log, harness, outside>>

PartHeading(c) ==
    /\ call[c].pc = "loop"
    /\ \E line \in Offered(c) :
        LET dl == Dialect(call[c].self) IN
        /\ ~skip_line(dl, line) /\ part_match(dl, line)
        /\ Iterate(c, PartStep(Store(heap, dicts, extract_log), call[c], line,
                               self_registry[call[c].self]))

DivisionHeading(c) ==
    /\ call[c].pc = "loop"
    /\ \E line \in Offered(c) :
        LET dl == Dialect(call[c].self) IN
        /\ ~skip_line(dl, line) /\ ~part_match(dl, line) /\ div_match(dl, line)
        /\ Iterate(c, DivisionStep(Store(heap, dicts, extract_log), call[c], line,
                                   self_registry[call[c].self]))

SectionHeading(c) ==
    /\ call[c].pc = "loop"
    /\ \E line \in Offered(c) :
        LET dl == Dialect(call[c].self) IN
        /\ ~skip_line(dl, line) /\ ~part_match(dl, line) /\ ~div_match(dl, line)
        /\ section_match(dl, line)
        /\ Iterate(c, SectionStep(Store(heap, dicts, extract_log), call[c], line,
                                  self_registry[call[c].self]))

ContentLine(c) ==
    /\ call[c].pc = "loop"
    /\ \E line \in Offered(c) :
        LET dl == Dialect(call[c].self) IN
        /\ ~skip_line(dl, line) /\ ~part_match(dl, line) /\ ~div_match(dl, line)
        /\ ~section_match(dl, line)
        /\ Iterate(c, ContentStep(Store(heap, dicts, extract_log), call[c], line,
                                  self_registry[call[c].self]))

\* after the loop: "Save last section"
EndOfInput(c) ==
    /\ call[c].pc = "loop"
    /\ MayEnd(c)
    /\ Iterate(c, [st |-> Flush(Store(heap, dicts, extract_log), call[c],
                                self_registry[call[c].self]),
                   f |-> [call[c] EXCEPT !.pc = "return"]])

\* "return act, self.registry": the caller gets the Act and the dict object
Return(c) ==
    LET f == call[c]
        d == self_registry[f.self]
    IN  /\ f.pc = "return"
        /\ call' = [call EXCEPT ![c] = [f EXCEPT !.pc = "done", !.ret_act = f.act,
                                                 !.ret_registry = d,
                                                 !.result = View(dicts[d], heap)]]
        /\ UNCHANGED <<heap, dicts, self_registry, extract_log, harness, outside>>

\* The caller starts a call only when MayStart allows it: one call after another,
\* unless it runs two concurrently.
Next ==
    \E c \in Calls :
        \/ ParseReset(c)
        \/ ValidateMetadata(c)
        \/ Decode(c)
        \/ CreateAct(c)
        \/ SkipLine(c)
        \/ PartHeading(c)
        \/ DivisionHeading(c)
        \/ SectionHeading(c)
        \/ ContentLine(c)
        \/ EndOfInput(c)
        \/ Return(c)

\* __init__: every parser instance starts with an empty registry of its own
InitObjects ==
    /\ heap = <<>>
    /\ dicts = <<<<>>, <<>>, <<>>, <<>>>>
    /\ self_registry = [p \in Parsers |->
                           CASE p = "federal1" -> 1 [] p = "federal2" -> 2
                             [] p = "victorian1" -> 3 [] OTHER -> 4]
    /\ call = [c \in Calls |-> IdleFrame]
    /\ extract_log = <<>>

\* no other component is used while the parsers are exercised
OutsideIdle ==
    /\ canon = None
    /\ xref = None
    /\ dispatch = None
    /\ disk = None
    /\ cache_call = None
    /\ fetch_call = None
    /\ download = None
    /\ writers = None

\* one parse of one document
Init == InitObjects /\ harness = [mode |-> "single"] /\ OutsideIdle
Spec == Init /\ [][Next]_vars

\* one parser instance used for several parses in turn
InitReuse == InitObjects /\ harness = [mode |-> "reuse"] /\ OutsideIdle
SpecReuse == InitReuse /\ [][Next]_vars

\* two parses of different documents, interleaved
InitConcurrent == InitObjects /\ harness = [mode |-> "concurrent"] /\ OutsideIdle
SpecConcurrent == InitConcurrent /\ [][Next]_vars

\* a parse of a document, then a parse of the same document without the Division
\* headings that the first met outside a Part
InitDrop == InitObjects /\ harness = [mode |-> "drop"] /\ OutsideIdle
SpecDrop == InitDrop /\ [][Next]_vars

\* one parse of a document over the full set of Paragraph markers
InitMarkers == InitObjects /\ harness = [mode |-> "markers"] /\ OutsideIdle
SpecMarkers == InitMarkers /\ [][Next]_vars

---------------------------------------------------------------------------
\* Python str operations, character by character.

Char(s, i) == SubSeq(s, i, i)

ascii_uppercase == "ABCDEFGHIJKLMNOPQRSTUVWXYZ"
ascii_lowercase == "abcdefghijklmnopqrstuvwxyz"
digits == "0123456789"

\* position of the character ch in alphabet, 0 when it is not there
IndexIn(ch, alphabet) ==
    IF \E i \in 1..Len(alphabet) : Char(alphabet, i) = ch
    THEN CHOOSE i \in 1..Len(alphabet) : Char(alphabet, i) = ch
    ELSE 0

AllIn(s, alphabet) == \A i \in 1..Len(s) : IndexIn(Char(s, i), alphabet) # 0

\* str.lower() on ASCII text
RECURSIVE lower(_)
lower(s) ==
    IF s = "" THEN ""
    ELSE LET i == IndexIn(Head(s), ascii_uppercase)
         IN  (IF i = 0 THEN Head(s) ELSE Char(ascii_lowercase, i)) \o lower(Tail(s))

\* str.startswith(prefix, at - 1), case kept
StartsWithAt(s, at, prefix) ==
    /\ at + Len(prefix) - 1 <= Len(s)
    /\ SubSeq(s, at, at + Len(prefix) - 1) = prefix

\* "sub in s"
Contains(s, sub) == \E at \in 1..(Len(s) + 1) : StartsWithAt(s, at, sub)

\* str.split(sep) for a separator of one character
RECURSIVE split(_, _)
split(s, sep) ==
    IF \E i \in 1..Len(s) : Char(s, i) = sep
    THEN LET i == CHOOSE i \in 1..Len(s) :
                      /\ Char(s, i) = sep
                      /\ \A j \in 1..(i - 1) : Char(s, j) # sep
         IN  <<SubSeq(s, 1, i - 1)>> \o split(SubSeq(s, i + 1, Len(s)), sep)
    ELSE <<s>>

---------------------------------------------------------------------------
\* canonical_id.py

VALID_JURISDICTIONS ==
    {"au-federal", "au-victoria", "au-nsw", "au-queensland", "au-sa", "au-wa",
     "au-tasmania", "au-nt", "au-act"}

VALID_CODE_TYPES == {"fwa", "fwr", "ma", "ohs", "eoa", "lsl", "wca", "aca"}

\* the dataclass CanonicalID; section is None when the ID has none
CanonicalID(jurisdiction, code_type, year, section) ==
    [jurisdiction |-> jurisdiction, code_type |-> code_type, year |-> year,
     section |-> section]

\* what parse_canonical_id returns for a string it rejects
NoCanonicalID == [none |-> TRUE]

\* "if self.section": neither None nor the empty string
has_section(section) == section # None /\ section # ""

\* the property full_id
full_id(cid) ==
    LET base == "/" \o cid.jurisdiction \o "/" \o cid.code_type \o "/" \o cid.year
    IN  IF has_section(cid.section) THEN base \o "/" \o cid.section ELSE base

\* a cache_filename that would tell the sections of one document apart
cache_filename_per_section(cid) ==
    IF has_section(cid.section)
    THEN cid.code_type \o "-" \o cid.year \o "-" \o cid.section \o ".txt"
    ELSE cid.code_type \o "-" \o cid.year \o ".txt"

\* the property cache_filename
cache_filename(cid) == cid.code_type \o "-" \o cid.year \o ".txt"

\* the property metadata_filename
metadata_filename(cid) == cid.code_type \o "-" \o cid.year \o "-metadata.json"

\* the property checksum_filename
checksum_filename(cid) == cid.code_type \o "-" \o cid.year \o ".checksum"

\* The pattern ^/([a-z-]+)/([a-z]+)/(\d{4,6})(?:/([a-z0-9.]+))?$ matched against
\* the whole of t. No character class holds "/", so the groups are the pieces
\* between the slashes.
pattern_groups(t) ==
    LET parts == split(t, "/") IN
    IF /\ Len(parts) \in {4, 5}
       /\ parts[1] = ""
       /\ parts[2] # "" /\ AllIn(parts[2], ascii_lowercase \o "-")
       /\ parts[3] # "" /\ AllIn(parts[3], ascii_lowercase)
       /\ Len(parts[4]) \in 4..6 /\ AllIn(parts[4], digits)
       /\ Len(parts) = 5 =>
              parts[5] # "" /\ AllIn(parts[5], ascii_lowercase \o digits \o ".")
    THEN [matched |-> TRUE, jurisdiction |-> parts[2], code_type |-> parts[3],
          year |-> parts[4],
          section |-> IF Len(parts) = 5 THEN parts[5] ELSE None]
    ELSE [matched |-> FALSE]

\* re.match(pattern, s): "$" matches at the end of s and also just before a
\* newline that is the last character of s
re_match(s) ==
    IF s # "" /\ Char(s, Len(s)) = "\n"
    THEN pattern_groups(SubSeq(s, 1, Len(s) - 1))
    ELSE pattern_groups(s)

parse_canonical_id(canonical_id) ==
    LET match == re_match(lower(canonical_id)) IN
    IF ~match.matched THEN NoCanonicalID
    ELSE IF match.jurisdiction \notin VALID_JURISDICTIONS THEN NoCanonicalID
    ELSE IF match.code_type \notin VALID_CODE_TYPES THEN NoCanonicalID
    ELSE CanonicalID(match.jurisdiction, match.code_type, match.year, match.section)

validate_canonical_id(canonical_id) == parse_canonical_id(canonical_id) # NoCanonicalID

\* build_canonical_id: the string built, or the ValueError raised
build_canonical_id(jurisdiction, code_type, year, section) ==
    LET j == lower(jurisdiction)
        c == lower(code_type)
        base == "/" \o j \o "/" \o c \o "/" \o year
    IN  IF j \notin VALID_JURISDICTIONS \/ c \notin VALID_CODE_TYPES
        THEN [raised |-> "ValueError", value |-> ""]
        ELSE [raised |-> None,
              value |-> IF has_section(section) THEN base \o "/" \o section ELSE base]

\* The strings the functions are called on: a lead, three segments, a tail and an
\* end, each as a caller may write it.
Leads == {"/", ""}
JurisdictionsWritten == {"au-federal", "AU-Victoria", "au-mars"}
CodeTypesWritten == {"fwa", "OHS", "xyz"}
YearsWritten == {"2009", "000004", "200", "2009123", "20o9"}
TailsWritten == {"", "/s21", "/S21", "/reg3.01", "/", "/s1/1", "/part-1"}
EndsWritten == {"", "\n"}
CanonInputs ==
    {lead \o j \o "/" \o c \o "/" \o y \o tail \o end :
        lead \in Leads, j \in JurisdictionsWritten, c \in CodeTypesWritten,
        y \in YearsWritten, tail \in TailsWritten, end \in EndsWritten}

\* components a caller hands to build_canonical_id directly
SectionsGiven == {None, "", "s21", "reg3.01"}

CanonFrame(s) ==
    [pc |-> "start", s |-> s, parsed |-> NoCanonicalID, valid |-> FALSE,
     built |-> [raised |-> None, value |-> ""],
     files |-> [cache |-> "", metadata |-> "", checksum |-> ""]]

\* canonical = parse_canonical_id(s)
CanonParse ==
    /\ canon.pc = "start"
    /\ canon' = [canon EXCEPT !.pc = "parsed", !.parsed = parse_canonical_id(canon.s)]
    /\ UNCHANGED <<parser_vars, stepwise, xref, dispatch, disk, cache_call, fetch_call>>

\* validate_canonical_id(s)
CanonValidate ==
    /\ canon.pc = "parsed"
    /\ canon' = [canon EXCEPT !.pc = "validated",
                              !.valid = validate_canonical_id(canon.s)]
    /\ UNCHANGED <<parser_vars, stepwise, xref, dispatch, disk, cache_call, fetch_call>>

\* build_canonical_id(canonical.jurisdiction, canonical.code_type, canonical.year,
\* canonical.section): the string rebuilt from the parsed components
CanonBuild ==
    /\ canon.pc = "validated"
    /\ canon.parsed # NoCanonicalID
    /\ LET p == canon.parsed IN
       canon' = [canon EXCEPT !.pc = "built",
                              !.built = build_canonical_id(p.jurisdiction, p.code_type,
                                                           p.year, p.section)]
    /\ UNCHANGED <<parser_vars, stepwise, xref, dispatch, disk, cache_call, fetch_call>>

\* the three filename properties read off the CanonicalID
CanonFilenames ==
    /\ canon.pc = "built"
    /\ LET p == canon.parsed IN
       canon' = [canon EXCEPT !.pc = "done",
                              !.files = [cache |-> cache_filename(p),
                                         metadata |-> metadata_filename(p),
                                         checksum |-> checksum_filename(p)]]
    /\ UNCHANGED <<parser_vars, stepwise, xref, dispatch, disk, cache_call, fetch_call>>

NextCanonical == CanonParse \/ CanonValidate \/ CanonBuild \/ CanonFilenames

\* the hierarchy parsers are not used by the other components
ParsersIdle == InitObjects /\ harness = [mode |-> "off"]

InitCanonical ==
    /\ ParsersIdle
    /\ canon \in {CanonFrame(s) : s \in CanonInputs}
    /\ xref = None /\ dispatch = None /\ disk = None
    /\ cache_call = None /\ fetch_call = None
    /\ download = None /\ writers = None

SpecCanonical == InitCanonical /\ [][NextCanonical]_vars

\* A caller hands components to build_canonical_id directly and then parses the
\* string it got.
BuildFrame(jurisdiction, code_type, year, section) ==
    [pc |-> "given", jurisdiction |-> jurisdiction, code_type |-> code_type,
     year |-> year, section |-> section,
     built |-> [raised |-> None, value |-> ""], parsed |-> NoCanonicalID,
     valid |-> FALSE]

\* build_canonical_id(jurisdiction, code_type, year, section)
BuildGiven ==
    /\ canon.pc = "given"
    /\ \E r \in {build_canonical_id(canon.jurisdiction, canon.code_type, canon.year,
                                    canon.section)} :
        canon' = [canon EXCEPT !.pc = IF r.raised = None THEN "built" ELSE "raised",
                               !.built = r]
    /\ UNCHANGED <<parser_vars, stepwise, xref, dispatch, disk, cache_call, fetch_call>>

\* validate_canonical_id and parse_canonical_id of the string that was built
ParseBuilt ==
    /\ canon.pc = "built"
    /\ canon.built.raised = None
    /\ \E r \in {parse_canonical_id(canon.built.value)} :
        canon' = [canon EXCEPT !.pc = "parsed", !.parsed = r,
                               !.valid = (r # NoCanonicalID)]
    /\ UNCHANGED <<parser_vars, stepwise, xref, dispatch, disk, cache_call, fetch_call>>

NextBuild == BuildGiven \/ ParseBuilt

InitBuild ==
    /\ ParsersIdle
    /\ canon \in {BuildFrame(j, c, y, sec) :
                      j \in JurisdictionsWritten, c \in CodeTypesWritten,
                      y \in YearsWritten, sec \in SectionsGiven}
    /\ xref = None /\ dispatch = None /\ disk = None
    /\ cache_call = None /\ fetch_call = None
    /\ download = None /\ writers = None

SpecBuild == InitBuild /\ [][NextBuild]_vars

---------------------------------------------------------------------------
\* cross_references.py

\* A Python name is bound to a value that was computed once: F applied to the
\* value of v.
Bind(v, F(_)) == CHOOSE r \in {F(x) : x \in {v}} : TRUE

\* the characters \s matches in the texts used here
whitespace == " \t\n\r\f"

IsDigit(s, i) == i <= Len(s) /\ IndexIn(Char(s, i), digits) # 0
IsLetter(s, i) == i <= Len(s) /\ IndexIn(lower(Char(s, i)), ascii_lowercase) # 0
IsSpace(s, i) == i <= Len(s) /\ IndexIn(Char(s, i), whitespace) # 0

\* the literal lit at position i, letters compared without case (re.IGNORECASE)
LiteralAt(s, i, lit) ==
    /\ i + Len(lit) - 1 <= Len(s)
    /\ lower(Char(s, i)) = lower(Char(lit, 1))
    /\ lower(SubSeq(s, i, i + Len(lit) - 1)) = lower(lit)

\* the position after the longest run of digits / of whitespace starting at i
RECURSIVE AfterDigits(_, _)
AfterDigits(s, i) == IF IsDigit(s, i) THEN AfterDigits(s, i + 1) ELSE i
RECURSIVE AfterSpaces(_, _)
AfterSpaces(s, i) == IF IsSpace(s, i) THEN AfterSpaces(s, i + 1) ELSE i

\* a failed match, and a match that ends before position stop with group 1
\* starting at position from
NoMatch == [matched |-> FALSE, start |-> 0, stop |-> 0, from |-> 0]
Match(start, from, stop) == [matched |-> TRUE, start |-> start, stop |-> stop, from |-> from]

\* the optional pieces (?:\(\d+\))? and (?:\([a-z]\))? at position i: the position
\* after the piece, or i when it is not there
AfterNumberInParens(s, i) ==
    IF /\ i <= Len(s) /\ Char(s, i) = "("
       /\ IsDigit(s, i + 1)
       /\ AfterDigits(s, i + 1) <= Len(s) /\ Char(s, AfterDigits(s, i + 1)) = ")"
    THEN AfterDigits(s, i + 1) + 1 ELSE i
AfterLetterInParens(s, i) ==
    IF /\ i + 2 <= Len(s) /\ Char(s, i) = "(" /\ IsLetter(s, i + 1) /\ Char(s, i + 2) = ")"
    THEN i + 3 ELSE i

\* (\d+[A-Z]?(?:\(\d+\))?(?:\([a-z]\))?) at position i of a match that began at
\* start: every piece after \d+ is optional, so the greedy choice stands
SectionNumberAt(s, start, i) ==
    IF ~IsDigit(s, i) THEN NoMatch
    ELSE LET d == AfterDigits(s, i)
             l == IF IsLetter(s, d) THEN d + 1 ELSE d
         IN  Match(start, i, AfterLetterInParens(s, AfterNumberInParens(s, l)))

\* CITATION_PATTERNS["section"] at position i: (?:section|s\.|s\s) then the number
section_pattern_at(s, i) ==
    IF LiteralAt(s, i, "section") /\ SectionNumberAt(s, i, i + 7).matched
    THEN SectionNumberAt(s, i, i + 7)
    ELSE IF LiteralAt(s, i, "s.") /\ SectionNumberAt(s, i, i + 2).matched
    THEN SectionNumberAt(s, i, i + 2)
    ELSE IF LiteralAt(s, i, "s") /\ IsSpace(s, i + 1)
    THEN SectionNumberAt(s, i, i + 2)
    ELSE NoMatch

\* the Act names of CITATION_PATTERNS["act_reference"], in the order of the pattern
ACT_NAMES ==
    <<"Fair Work", "Occupational Health and Safety", "Equal Opportunity",
      "Long Service Leave", "Workers Compensation", "Accident Compensation">>

\* \s+Act\s+\d{4} at position i of a match that began at start
ActYearAt(s, start, i) ==
    LET a == AfterSpaces(s, i)
        y == AfterSpaces(s, a + 3)
    IN  IF /\ a > i /\ LiteralAt(s, a, "Act") /\ y > a + 3
           /\ IsDigit(s, y) /\ IsDigit(s, y + 1) /\ IsDigit(s, y + 2) /\ IsDigit(s, y + 3)
        THEN Match(start, start, y + 4)
        ELSE NoMatch

\* CITATION_PATTERNS["act_reference"] at position i
act_reference_pattern_at(s, i) ==
    IF \E n \in 1..Len(ACT_NAMES) :
           LiteralAt(s, i, ACT_NAMES[n]) /\ ActYearAt(s, i, i + Len(ACT_NAMES[n])).matched
    THEN LET n == CHOOSE n \in 1..Len(ACT_NAMES) :
                      /\ LiteralAt(s, i, ACT_NAMES[n])
                      /\ ActYearAt(s, i, i + Len(ACT_NAMES[n])).matched
         IN  ActYearAt(s, i, i + Len(ACT_NAMES[n]))
    ELSE NoMatch

\* CITATION_PATTERNS["part"] at position i: Part\s+(\d+[A-Z]?(?:-\d+)?)
part_pattern_at(s, i) ==
    LET n == AfterSpaces(s, i + 4)
        d == AfterDigits(s, n)
        l == IF IsLetter(s, d) THEN d + 1 ELSE d
    IN  IF LiteralAt(s, i, "Part") /\ n > i + 4 /\ IsDigit(s, n)
        THEN Match(i, n, IF l <= Len(s) /\ Char(s, l) = "-" /\ IsDigit(s, l + 1)
                         THEN AfterDigits(s, l + 1) ELSE l)
        ELSE NoMatch

\* CITATION_PATTERNS["division"] at position i: Division\s+(\d+[A-Z]?)
division_pattern_at(s, i) ==
    LET n == AfterSpaces(s, i + 8)
        d == AfterDigits(s, n)
    IN  IF LiteralAt(s, i, "Division") /\ n > i + 8 /\ IsDigit(s, n)
        THEN Match(i, n, IF IsLetter(s, d) THEN d + 1 ELSE d)
        ELSE NoMatch

pattern_at(kind, s, i) ==
    CASE kind = "section" -> section_pattern_at(s, i)
      [] kind = "act_reference" -> act_reference_pattern_at(s, i)
      [] kind = "part" -> part_pattern_at(s, i)
      [] kind = "division" -> division_pattern_at(s, i)

\* the matches of at from position pos on, from left to right, each search
\* starting where the last match stopped; at[i] is what the pattern matches at
\* position i
RECURSIVE matches_from(_, _)
matches_from(at, pos) ==
    LET starts == {i \in pos..Len(at) : at[i].matched} IN
    IF starts = {} THEN <<>>
    ELSE Bind(CHOOSE i \in starts : \A j \in starts : i <= j,
              LAMBDA i : <<at[i]>> \o matches_from(at, at[i].stop))

\* CITATION_PATTERNS[kind].finditer(content) from position pos on
finditer(kind, content, pos) ==
    Bind([i \in 1..Len(content) |-> pattern_at(kind, content, i)],
         LAMBDA at : matches_from(at, pos))

\* match.group(0) and match.group(1)
group0(content, m) == SubSeq(content, m.start, m.stop - 1)
group1(content, m) == SubSeq(content, m.from, m.stop - 1)

\* ACT_NAME_TO_ID.get(act_name)
ACT_NAME_TO_ID(act_name) ==
    CASE act_name = "fair work act 2009" -> "/au-federal/fwa/2009"
      [] act_name = "occupational health and safety act 2004" -> "/au-victoria/ohs/2004"
      [] act_name = "equal opportunity act 2010" -> "/au-victoria/eoa/2010"
      [] act_name = "long service leave act 2018" -> "/au-victoria/lsl/2018"
      [] act_name = "workers compensation act 1958" -> "/au-victoria/wca/1958"
      [] act_name = "accident compensation act 1985" -> "/au-victoria/aca/1985"
      [] OTHER -> None

\* the dataclass CrossReference; confidence is held in tenths (0.9 is 9)
CrossReference(source, target, citation, section, confidence) ==
    [source_canonical_id |-> source, target_canonical_id |-> target,
     citation_text |-> citation, section |-> section, confidence |-> confidence]

\* the first loop of parse_cross_references
section_refs(content, source_canonical_id) ==
    Bind(finditer("section", content, 1),
         LAMBDA ms :
             [n \in 1..Len(ms) |->
                 CrossReference(source_canonical_id,
                                source_canonical_id \o "/s" \o group1(content, ms[n]),
                                group0(content, ms[n]), group1(content, ms[n]), 9)])

\* the second loop of parse_cross_references
act_refs(content, source_canonical_id) ==
    Bind(finditer("act_reference", content, 1),
         LAMBDA ms :
             [n \in 1..Len(ms) |->
                 Bind(ACT_NAME_TO_ID(lower(group1(content, ms[n]))),
                      LAMBDA act_target_id :
                          CrossReference(source_canonical_id, act_target_id,
                                         group0(content, ms[n]), None,
                                         IF act_target_id # None THEN 8 ELSE 5))])

parse_cross_references(content, source_canonical_id) ==
    section_refs(content, source_canonical_id) \o act_refs(content, source_canonical_id)

\* the loop "Remove duplicates and limit" over related[i..], with the set seen and
\* the list unique_related built so far
RECURSIVE unique_from(_, _, _, _, _)
unique_from(related, i, seen, unique_related, max_results) ==
    IF i > Len(related) THEN unique_related
    ELSE IF related[i] \in seen
    THEN unique_from(related, i + 1, seen, unique_related, max_results)
    ELSE IF Len(unique_related) + 1 >= max_results
    THEN Append(unique_related, related[i])
    ELSE unique_from(related, i + 1, seen \cup {related[i]},
                     Append(unique_related, related[i]), max_results)

\* "if ref.target_canonical_id and ref.confidence >= 0.7"
is_related(ref) ==
    /\ ref.target_canonical_id # None
    /\ ref.target_canonical_id # ""
    /\ ref.confidence >= 7

find_related_sections(canonical_id, content, max_results) ==
    Bind(parse_cross_references(content, canonical_id),
         LAMBDA cross_refs :
             Bind(SelectSeq(cross_refs, is_related),
                  LAMBDA kept :
                      Bind([n \in 1..Len(kept) |-> kept[n].target_canonical_id],
                           LAMBDA related :
                               unique_from(related, 1, {}, <<>>, max_results))))

\* Texts: up to MaxCitations pieces joined by single spaces.
MaxCitations == 3
CitationPieces ==
    {"see section 21", "s 21", "s. 7", "s.5(1)(a)", "section21A", "Fair Work Act 2009",
     "Equal Opportunity  Act 2010", "Part 2-1", "Division 3"}

RECURSIVE JoinPieces(_)
JoinPieces(ps) ==
    IF Len(ps) = 0 THEN ""
    ELSE IF Len(ps) = 1 THEN ps[1]
    ELSE ps[1] \o " " \o JoinPieces(Tail(ps))

Texts == UNION {[1..n -> CitationPieces] : n \in 1..MaxCitations}

\* the values of max_results a caller passes
MaxResultsGiven == {0, 1, 2, 10}

XrefFrame(ps) ==
    [pc |-> "start", pieces |-> ps, content |-> JoinPieces(ps),
     source |-> "/au-victoria/ohs/2004", cross_refs |-> <<>>, max_results |-> 10,
     related |-> <<>>]

\* cross_refs = parse_cross_references(content, source)
ParseCrossReferences ==
    /\ xref.pc = "start"
    /\ xref' = [xref EXCEPT !.pc = "parsed",
                            !.cross_refs = parse_cross_references(xref.content, xref.source)]
    /\ UNCHANGED <<parser_vars, stepwise, canon, dispatch, disk, cache_call, fetch_call>>

\* find_related_sections(source, content, max_results)
FindRelatedSections ==
    /\ xref.pc = "parsed"
    /\ \E m \in MaxResultsGiven :
        xref' = [xref EXCEPT !.pc = "done", !.max_results = m,
                             !.related = find_related_sections(xref.source, xref.content, m)]
    /\ UNCHANGED <<parser_vars, stepwise, canon, dispatch, disk, cache_call, fetch_call>>

NextXref == ParseCrossReferences \/ FindRelatedSections

InitXref ==
    /\ ParsersIdle
    /\ xref \in {XrefFrame(ps) : ps \in Texts}
    /\ canon = None /\ dispatch = None /\ disk = None
    /\ cache_call = None /\ fetch_call = None
    /\ download = None /\ writers = None

SpecXref == InitXref /\ [][NextXref]_vars

---------------------------------------------------------------------------
\* parsers/registry.py

\* the URLs and content types get_parser is asked about
Urls ==
    {"https://www.legislation.gov.au/C2009A00028/latest/text",
     "https://www.legislation.vic.gov.au/in-force/acts/ohs",
     "https://www.legislation.vic.gov.au/?from=legislation.gov.au",
     "https://example.com/act.txt"}
ContentTypes == {"text/plain", "TEXT/HTML", "application/pdf"}

\* the body of FederalTextParser.can_parse / VictorianTextParser.can_parse
can_parse_body(dialect, url, content_type) ==
    IF dialect = "federal"
    THEN Contains(url, "legislation.gov.au") /\ Contains(lower(content_type), "text")
    ELSE Contains(url, "legislation.vic.gov.au") /\ Contains(lower(content_type), "text")

\* can_parse_body, computed once for each dialect, URL and content type
CanParseAnswers ==
    [d \in {"federal", "victorian"}, url \in Urls, content_type \in ContentTypes |->
        can_parse_body(d, url, content_type)]

\* parser.can_parse(url, content_type) for the parser instance p
can_parse(p, url, content_type) == CanParseAnswers[Dialect(p), url, content_type]

\* a loop that keeps the last parser that accepts
RECURSIVE last_accepting(_, _, _, _)
last_accepting(parsers, i, url, content_type) ==
    IF i > Len(parsers) THEN None
    ELSE LET later == last_accepting(parsers, i + 1, url, content_type) IN
         IF later # None THEN later
         ELSE IF can_parse(parsers[i], url, content_type) THEN parsers[i]
         ELSE None

\* the loop of get_parser from parsers[i] on: the parser returned, or None when the
\* loop ends and ValueError is raised
RECURSIVE first_accepting(_, _, _, _)
first_accepting(parsers, i, url, content_type) ==
    IF i > Len(parsers) THEN None
    ELSE IF can_parse(parsers[i], url, content_type) THEN parsers[i]
    ELSE first_accepting(parsers, i + 1, url, content_type)

\* ParserRegistry.get_parser: what it returns or raises, and self.parsers after it
get_parser(parsers, url, content_type) ==
    LET found == first_accepting(parsers, 1, url, content_type) IN
    [parsers |-> parsers,
     returned |-> found,
     raised |-> IF found = None THEN "ValueError" ELSE None]

\* longest list of registered parsers
MaxParsers == 3

\* no get_parser call made yet
NoLookup ==
    [called |-> FALSE, url |-> "", content_type |-> "", before |-> <<>>, after |-> <<>>,
     returned |-> None, raised |-> None]

\* ParserRegistry.register
Register ==
    /\ Len(dispatch.parsers) < MaxParsers
    /\ \E p \in Parsers :
        dispatch' = [dispatch EXCEPT !.parsers = Append(@, p)]
    /\ UNCHANGED <<parser_vars, stepwise, canon, xref, disk, cache_call, fetch_call>>

\* a call of ParserRegistry.get_parser, with the list as it was before the call
GetParser ==
    /\ \E url \in Urls, content_type \in ContentTypes :
        LET r == get_parser(dispatch.parsers, url, content_type) IN
        dispatch' = [parsers |-> r.parsers,
                     last |-> [called |-> TRUE, url |-> url, content_type |-> content_type,
                               before |-> dispatch.parsers, after |-> r.parsers,
                               returned |-> r.returned, raised |-> r.raised]]
    /\ UNCHANGED <<parser_vars, stepwise, canon, xref, disk, cache_call, fetch_call>>

NextDispatch == Register \/ GetParser

\* ParserRegistry.__init__: self.parsers = []
InitDispatch ==
    /\ ParsersIdle
    /\ dispatch = [parsers |-> <<>>, last |-> NoLookup]
    /\ canon = None /\ xref = None /\ disk = None
    /\ cache_call = None /\ fetch_call = None
    /\ download = None /\ writers = None

SpecDispatch == InitDispatch /\ [][NextDispatch]_vars

---------------------------------------------------------------------------
\* cache.py

\* the texts written to the cache and the bytes put in a content file from outside
Contents == {"", "Fair Work Act 2009", "line one\nline two", "line one\r\nline two"}

\* hashlib.sha256(content.encode("utf-8")).hexdigest() of the texts that occur
_calculate_hash(content) ==
    CASE content = "" ->
             "e3b0c44298fc1c149afbf4c8996fb92427ae41e4649b934ca495991b7852b855"
      [] content = "Fair Work Act 2009" ->
             "936e73e18a3077f6112f3211d0ad5d58037901f87cb576da9b20aaf228be4349"
      [] content = "line one\nline two" ->
             "b6858b03a6cae635deeaeab09a74e598979b72c917cbfff0bb3fe2cd05111dbc"
      [] content = "line one\r\nline two" ->
             "8ec4c37982ffc5a839234595530d36fa868683bc09ea40fe9960cb64c7847e33"

\* Path.read_text: the file is opened in text mode with newline=None, so "\r\n"
\* and a lone "\r" are read as "\n"
RECURSIVE read_text(_)
read_text(bytes) ==
    IF bytes = "" THEN ""
    ELSE IF Head(bytes) # "\r" THEN Head(bytes) \o read_text(Tail(bytes))
    ELSE IF Len(bytes) >= 2 /\ Char(bytes, 2) = "\n"
    THEN "\n" \o read_text(SubSeq(bytes, 3, Len(bytes)))
    ELSE "\n" \o read_text(Tail(bytes))

\* Path.write_text on a POSIX system: "\n" is written as it is
write_text(text) == text

\* str.strip()
RECURSIVE strip(_)
strip(s) ==
    IF s = "" THEN ""
    ELSE IF IsSpace(s, 1) THEN strip(Tail(s))
    ELSE IF IsSpace(s, Len(s)) THEN strip(SubSeq(s, 1, Len(s) - 1))
    ELSE s

\* paths below base_dir
get_content_path(canonical) == canonical.jurisdiction \o "/" \o cache_filename(canonical)
get_metadata_path(canonical) ==
    canonical.jurisdiction \o "/" \o metadata_filename(canonical)
get_checksum_path(canonical) ==
    canonical.jurisdiction \o "/" \o checksum_filename(canonical)

\* an empty cache directory, and a file written into a directory
EmptyDisk == [p \in {} |-> ""]
WriteFile(d, path, bytes) ==
    [p \in DOMAIN d \cup {path} |-> IF p = path THEN bytes ELSE d[p]]

\* CacheManager.exists
exists(d, canonical) == get_content_path(canonical) \in DOMAIN d

\* what read_content returns: None, or the text read
NoContent == [is_none |-> TRUE, text |-> ""]
SomeContent(text) == [is_none |-> FALSE, text |-> text]

\* CacheManager.read_content
read_content(d, canonical) ==
    IF get_content_path(canonical) \notin DOMAIN d THEN NoContent
    ELSE SomeContent(read_text(d[get_content_path(canonical)]))

\* CacheManager.write_content: the content, the checksum and the metadata file
\* (of the metadata JSON the ID, the URL and the hash are kept)
write_content(d, canonical, content, source_url) ==
    LET content_hash == _calculate_hash(content)
        d1 == WriteFile(d, get_content_path(canonical), write_text(content))
        d2 == WriteFile(d1, get_checksum_path(canonical), write_text(content_hash))
    IN  WriteFile(d2, get_metadata_path(canonical),
                  write_text("canonical_id: " \o full_id(canonical) \o ", source_url: "
                             \o source_url \o ", content_hash: " \o content_hash))

\* CacheManager.verify_checksum
verify_checksum(d, canonical) ==
    LET content == read_content(d, canonical) IN
    IF content.is_none THEN FALSE
    ELSE IF get_checksum_path(canonical) \notin DOMAIN d THEN FALSE
    ELSE strip(read_text(d[get_checksum_path(canonical)])) = _calculate_hash(content.text)

\* the IDs the cache is asked about: two IDs of one document and another document
CacheIds == {"/au-federal/fwa/2009", "/au-federal/fwa/2009/s21", "/au-nsw/fwa/2009"}

\* the IDs fetch is called with
FetchIds == CacheIds \cup {"/AU-Federal/FWA/2009", "fwa/2009"}

\* parse_canonical_id, computed once for each of these IDs
ParsedIds == [id \in FetchIds |-> parse_canonical_id(id)]
parsed(id) == IF id \in FetchIds THEN ParsedIds[id] ELSE parse_canonical_id(id)

\* no exists / read_content / verify_checksum call made yet
NoProbe ==
    [called |-> FALSE, id |-> "", written |-> NoContent, bytes |-> NoContent,
     exists |-> FALSE, read |-> NoContent, verified |-> FALSE]

\* no fetch call made yet
NoFetch ==
    [called |-> FALSE, id |-> "", force |-> FALSE, before |-> EmptyDisk,
     after |-> EmptyDisk, answer |-> [ok |-> FALSE, content |-> ""], asked |-> FALSE,
     returned |-> NoContent, raised |-> None, is_cached_after |-> FALSE]

\* the last text write_content was given for the document of canonical, if any
LastWritten(written, canonical) ==
    IF get_content_path(canonical) \in DOMAIN written
    THEN SomeContent(written[get_content_path(canonical)])
    ELSE NoContent

\* the texts the caller writes and the bytes put in a content file from outside:
\* all of Contents when the cache is exercised alone, and those that set up a
\* cached, an empty and a changed document when fetch is exercised
ContentsGiven ==
    IF harness.mode = "fetch" THEN {"", "Fair Work Act 2009"} ELSE Contents

\* the URL the documents come from
SourceUrl == "https://www.legislation.gov.au/C2009A00028/latest/text"

\* write_content(parse_canonical_id(id), x, source_url); what was observed of the
\* cache before is out of date
CacheWrite ==
    /\ \E id \in CacheIds, x \in ContentsGiven :
        LET canonical == parsed(id) IN
        /\ disk' = write_content(disk, canonical, x, SourceUrl)
        /\ cache_call' = [written |-> WriteFile(cache_call.written,
                                                get_content_path(canonical), x),
                          probe |-> NoProbe]
    /\ fetch_call' = NoFetch
    /\ UNCHANGED <<parser_vars, stepwise, canon, xref, dispatch>>

\* the content file of a cached document is changed from outside; the checksum
\* file is left as it is
CacheTamper ==
    /\ \E id \in CacheIds, y \in ContentsGiven :
        LET path == get_content_path(parsed(id)) IN
        /\ path \in DOMAIN disk
        /\ disk[path] # y
        /\ disk' = WriteFile(disk, path, y)
    /\ cache_call' = [cache_call EXCEPT !.probe = NoProbe]
    /\ fetch_call' = NoFetch
    /\ UNCHANGED <<parser_vars, stepwise, canon, xref, dispatch>>

\* exists, read_content and verify_checksum called on one ID
CacheProbe ==
    /\ \E id \in CacheIds :
        LET canonical == parsed(id) IN
        cache_call' = [cache_call EXCEPT !.probe =
            [called |-> TRUE, id |-> id,
             written |-> LastWritten(cache_call.written, canonical),
             bytes |-> IF exists(disk, canonical)
                       THEN SomeContent(disk[get_content_path(canonical)])
                       ELSE NoContent,
             exists |-> exists(disk, canonical),
             read |-> read_content(disk, canonical),
             verified |-> verify_checksum(disk, canonical)]]
    /\ UNCHANGED <<parser_vars, stepwise, canon, xref, dispatch, disk, fetch_call>>

NextCache == CacheWrite \/ CacheTamper \/ CacheProbe

\* CacheManager.__init__ on an empty base_dir
InitCache ==
    /\ InitObjects /\ harness = [mode |-> "cache"]
    /\ disk = EmptyDisk
    /\ cache_call = [written |-> EmptyDisk, probe |-> NoProbe]
    /\ fetch_call = NoFetch
    /\ canon = None /\ xref = None /\ dispatch = None
    /\ download = None /\ writers = None

SpecCache == InitCache /\ [][NextCache]_vars

---------------------------------------------------------------------------
\* fetcher.py

\* the keys of LEGISLATION_SOURCES
LEGISLATION_SOURCES ==
    {"/au-federal/fwa/2009", "/au-federal/fwr/2009", "/au-federal/ma/000004",
     "/au-federal/ma/000003", "/au-federal/ma/000009", "/au-federal/ma/000018",
     "/au-federal/ma/000022", "/au-federal/ma/000005", "/au-federal/ma/000034",
     "/au-federal/ma/000120", "/au-federal/ma/000106", "/au-federal/ma/000002",
     "/au-victoria/ohs/2004", "/au-victoria/eoa/2010", "/au-victoria/lsl/2018",
     "/au-victoria/wca/1958", "/au-victoria/aca/1985"}

\* "Build base ID (without section)"
base_id_of(canonical) ==
    "/" \o canonical.jurisdiction \o "/" \o canonical.code_type \o "/" \o canonical.year

\* What the source answers when asked: a text that is not blank, or a failure that
\* _download_with_retry / _download_pdf_sync / _parse_pdf_content raise as
\* LegislationFetchError.
Downloads ==
    {[ok |-> TRUE, content |-> "Fair Work Act 2009"],
     [ok |-> TRUE, content |-> "line one\r\nline two"],
     [ok |-> FALSE, content |-> ""]}

\* the result of fetch: the directory after it, whether the source was asked, and
\* what is returned or raised
FetchResult(d, asked, returned, raised) ==
    [disk |-> d, asked |-> asked, returned |-> returned, raised |-> raised]

\* fetch, "Check cache first": the cached content is returned
cache_hit(d, base_canonical, force) ==
    /\ ~force
    /\ exists(d, base_canonical)
    /\ verify_checksum(d, base_canonical)
    /\ read_content(d, base_canonical).text # ""

\* LegislationFetcher.fetch, given what the source answers if it is asked
fetch(d, canonical_id, force, answer) ==
    LET canonical == parsed(canonical_id) IN
    IF canonical = NoCanonicalID THEN FetchResult(d, FALSE, NoContent, "ValueError")
    ELSE
    LET base_id == base_id_of(canonical)
        base_canonical == parsed(base_id)
    IN  IF base_canonical = NoCanonicalID
        THEN FetchResult(d, FALSE, NoContent, "ValueError")
        ELSE IF cache_hit(d, base_canonical, force)
        THEN FetchResult(d, FALSE, read_content(d, base_canonical), None)
        ELSE IF base_id \notin LEGISLATION_SOURCES
        THEN FetchResult(d, FALSE, NoContent, "LegislationFetchError")
        ELSE IF ~answer.ok
        THEN FetchResult(d, TRUE, NoContent, "LegislationFetchError")
        ELSE FetchResult(write_content(d, base_canonical, answer.content, SourceUrl),
                         TRUE, SomeContent(answer.content), None)

\* LegislationFetcher.is_cached
is_cached(d, canonical_id) ==
    LET canonical == parsed(canonical_id) IN
    IF canonical = NoCanonicalID THEN FALSE
    ELSE LET base_canonical == parsed(base_id_of(canonical)) IN
         IF base_canonical = NoCanonicalID THEN FALSE
         ELSE exists(d, base_canonical) /\ verify_checksum(d, base_canonical)

\* one call of fetch, then is_cached on the same ID
Fetch ==
    /\ \E id \in FetchIds, force \in BOOLEAN, answer \in Downloads :
        \E r \in {fetch(disk, id, force, answer)} :
        /\ disk' = r.disk
        /\ fetch_call' = [called |-> TRUE, id |-> id, force |-> force, before |-> disk,
                          after |-> r.disk, answer |-> answer, asked |-> r.asked,
                          returned |-> r.returned, raised |-> r.raised,
                          is_cached_after |-> is_cached(r.disk, id)]
        /\ cache_call' =
               [written |-> IF r.disk = disk THEN cache_call.written
                            ELSE WriteFile(cache_call.written,
                                           get_content_path(parsed(id)), answer.content),
                probe |-> NoProbe]
    /\ UNCHANGED <<parser_vars, stepwise, canon, xref, dispatch>>

\* the cache is filled by write_content and its files changed from outside
\* between the calls of fetch
NextFetch == CacheWrite \/ CacheTamper \/ Fetch

InitFetch ==
    /\ InitObjects /\ harness = [mode |-> "fetch"]
    /\ disk = EmptyDisk
    /\ cache_call = [written |-> EmptyDisk, probe |-> NoProbe]
    /\ fetch_call = NoFetch
    /\ canon = None /\ xref = None /\ dispatch = None
    /\ download = None /\ writers = None

SpecFetch == InitFetch /\ [][NextFetch]_vars

---------------------------------------------------------------------------
\* fetcher.py, _download_with_retry

\* the largest max_retries a fetcher is made with (the default is 3)
MaxRetries == 3

\* What one round of the try block gives: the text of the response (after
\* _parse_html_content when the response is HTML), or the exception raised by
\* client.get, raise_for_status or _parse_html_content.
Responses ==
    {[kind |-> "text", content |-> "Fair Work Act 2009"],
     [kind |-> "text", content |-> "line one\nline two"],
     [kind |-> "text", content |-> ""],
     [kind |-> "text", content |-> " \n"],
     [kind |-> "HTTPStatusError", content |-> ""],
     [kind |-> "RequestError", content |-> ""],
     [kind |-> "Exception", content |-> ""]}

\* every response is taken for a success
passes_always(response) == TRUE

\* the try block reaches "return content": no exception, and content.strip() is
\* not empty
passes(response) == response.kind = "text" /\ strip(response.content) # ""

\* the LegislationFetchError an except clause builds; an empty content raises
\* inside the try block and is caught by "except Exception". attempt tells the
\* error objects of the attempts apart.
error_of(response, attempt) ==
    [type |-> "LegislationFetchError",
     message |-> CASE response.kind = "HTTPStatusError" -> "HTTP error"
                   [] response.kind = "RequestError" -> "Network error"
                   [] OTHER -> "Unexpected error",
     attempt |-> attempt]

\* "Failed to fetch ... after max_retries attempts"
FailedToFetch ==
    [type |-> "LegislationFetchError", message |-> "Failed to fetch", attempt |-> 0]

\* last_error = None: no attempt has failed yet
NoError == [type |-> "None", message |-> "", attempt |-> 0]

\* the frame of a call: attempt is the loop variable, responses what the attempts
\* made so far were answered, slept the time.sleep calls in units of retry_delay
DownloadFrame(max_retries) ==
    [pc |-> "loop", max_retries |-> max_retries, attempt |-> 0, last_error |-> NoError,
     responses |-> <<>>, slept |-> <<>>, returned |-> NoContent, raised |-> NoError]

\* one round of "for attempt in range(self.max_retries)" up to the return or
\* the end of the except clause
Attempt ==
    /\ download.pc = "loop"
    /\ download.attempt < download.max_retries
    /\ \E response \in Responses :
        download' =
            IF passes(response)
            THEN [download EXCEPT !.pc = "returned",
                                  !.responses = Append(@, response),
                                  !.returned = SomeContent(response.content)]
            ELSE [download EXCEPT !.pc = "sleep",
                                  !.responses = Append(@, response),
                                  !.last_error = error_of(response, download.attempt + 1)]
    /\ UNCHANGED <<parser_vars, canon, xref, dispatch, disk, cache_call, fetch_call,
                   writers>>

\* "if attempt < self.max_retries - 1: time.sleep(...)", then the next round
SleepBeforeRetry ==
    /\ download.pc = "sleep"
    /\ download' =
           [download EXCEPT !.pc = "loop",
                            !.attempt = @ + 1,
                            !.slept = IF download.attempt < download.max_retries - 1
                                      THEN Append(@, download.attempt + 1) ELSE @]
    /\ UNCHANGED <<parser_vars, canon, xref, dispatch, disk, cache_call, fetch_call,
                   writers>>

\* the loop is over: "raise last_error or LegislationFetchError(...)"
AllRetriesFailed ==
    /\ download.pc = "loop"
    /\ download.attempt >= download.max_retries
    /\ download' = [download EXCEPT !.pc = "raised",
                                    !.raised = IF download.last_error # NoError
                                               THEN download.last_error ELSE FailedToFetch]
    /\ UNCHANGED <<parser_vars, canon, xref, dispatch, disk, cache_call, fetch_call,
                   writers>>

NextDownload == Attempt \/ SleepBeforeRetry \/ AllRetriesFailed

InitDownload ==
    /\ ParsersIdle
    /\ download \in {DownloadFrame(m) : m \in 0..MaxRetries}
    /\ canon = None /\ xref = None /\ dispatch = None /\ disk = None
    /\ cache_call = None /\ fetch_call = None /\ writers = None

\* the call runs on: no step of it waits for anything but the response
SpecDownload == InitDownload /\ [][NextDownload]_vars /\ WF_vars(NextDownload)

---------------------------------------------------------------------------
\* cache.py, write_content called by several callers of one cache directory at
\* a time (threads calling fetch, or two server processes): each Path.write_text
\* is a step of its own and nothing holds the three files together.

MaxWriters == 2
Writers == 1..MaxWriters

\* the texts the callers downloaded
WriterContents == {"Fair Work Act 2009", "line one\nline two"}

\* the JSON text write_metadata writes (the ID, the URL and the hash are kept)
metadata_json(canonical, source_url, content_hash) ==
    "canonical_id: " \o full_id(canonical) \o ", source_url: " \o source_url
        \o ", content_hash: " \o content_hash

\* a write_content call that has not yet written anything
WriterFrame(id, content) ==
    [pc |-> "start", id |-> id, content |-> content, content_hash |-> ""]

\* content_path.write_text(content, encoding="utf-8")
WriteContentFile(w) ==
    /\ writers[w].pc = "start"
    /\ disk' = WriteFile(disk, get_content_path(parsed(writers[w].id)),
                         write_text(writers[w].content))
    /\ writers' = [writers EXCEPT ![w].pc = "content_written"]
    /\ UNCHANGED <<parser_vars, download, canon, xref, dispatch, cache_call, fetch_call>>

\* content_hash = self._calculate_hash(content);
\* checksum_path.write_text(content_hash, encoding="utf-8")
WriteChecksumFile(w) ==
    /\ writers[w].pc = "content_written"
    /\ \E content_hash \in {_calculate_hash(writers[w].content)} :
        /\ disk' = WriteFile(disk, get_checksum_path(parsed(writers[w].id)),
                             write_text(content_hash))
        /\ writers' = [writers EXCEPT ![w].pc = "checksum_written",
                                      ![w].content_hash = content_hash]
    /\ UNCHANGED <<parser_vars, download, canon, xref, dispatch, cache_call, fetch_call>>

\* self.write_metadata(canonical, metadata)
WriteMetadataFile(w) ==
    /\ writers[w].pc = "checksum_written"
    /\ disk' = WriteFile(disk, get_metadata_path(parsed(writers[w].id)),
                         write_text(metadata_json(parsed(writers[w].id), SourceUrl,
                                                  writers[w].content_hash)))
    /\ writers' = [writers EXCEPT ![w].pc = "done"]
    /\ UNCHANGED <<parser_vars, download, canon, xref, dispatch, cache_call, fetch_call>>

NextWriters ==
    \E w \in Writers : WriteContentFile(w) \/ WriteChecksumFile(w) \/ WriteMetadataFile(w)

InitWriters ==
    /\ ParsersIdle
    /\ writers \in [Writers -> {WriterFrame(id, x) : id \in CacheIds, x \in WriterContents}]
    /\ disk = EmptyDisk
    /\ canon = None /\ xref = None /\ dispatch = None
    /\ cache_call = None /\ fetch_call = None /\ download = None

SpecWriters == InitWriters /\ [][NextWriters]_vars

---------------------------------------------------------------------------
\* Properties.

Done(c) == call[c].pc = "done"

\* a call that has built its Act
InParse(c) == call[c].pc \in {"loop", "return", "done"}

\* the registry self.registry names for call c
RegistryOf(c) == dicts[self_registry[call[c].self]]

Occurrences(s, x) == Cardinality({i \in DOMAIN s : s[i] = x})

\* C1: after a parse, every ID in a child list (children_ids, parts, divisions,
\* sections, subsections, paragraphs) of a node of the returned registry is a key
\* of that registry.
C1_ReferentialClosure ==
    \A c \in Calls :
        Done(c) =>
            \A k \in DOMAIN call[c].result :
                ChildIds(call[c].result[k]) \subseteq DOMAIN call[c].result

\* a parse has returned a Section with a Subsection that has a Paragraph
C1_Witness ==
    \E c \in Calls :
        /\ Done(c)
        /\ \E k \in DOMAIN call[c].result :
            /\ call[c].result[k].type = "subsection"
            /\ call[c].result[k].paragraphs # <<>>

\* C2: after a parse, each registry key k maps to a node whose id is k, no two
\* nodes created during the parse share an ID, and every node but the Act has a
\* parent_id that is a key of the registry.
C2_UniqueIdsAndParents ==
    \A c \in Calls :
        Done(c) =>
            /\ \A k \in DOMAIN call[c].result : call[c].result[k].id = k
            /\ \A r1, r2 \in call[c].created :
                   heap[r1].id = heap[r2].id => r1 = r2
            /\ \A k \in DOMAIN call[c].result :
                   call[c].result[k].type # "act"
                       => call[c].result[k].parent_id \in DOMAIN call[c].result

\* C3: during a parse, an ID once in the registry is never removed and is never
\* mapped to another node than the one first inserted.
C3_NeverReassigned ==
    [][\A c \in Calls :
           (InParse(c) /\ ~Done(c)) =>
               \A k \in DOMAIN RegistryOf(c) :
                   /\ k \in DOMAIN RegistryOf(c)'
                   /\ RegistryOf(c)'[k] = RegistryOf(c)[k]]_vars

\* C4: parsing the same lines with the same metadata twice, on a fresh parser
\* instance or on one that has parsed before, with or without another document
\* parsed in between, returns registries with the same keys, the same field values
\* and the same ordered child lists.
C4_Idempotent ==
    \A a, b \in Calls :
        (/\ Done(a) /\ Done(b)
         /\ Dialect(call[a].self) = Dialect(call[b].self)
         /\ call[a].metadata = call[b].metadata
         /\ call[a].consumed = call[b].consumed)
            => call[a].result = call[b].result

\* the third parse repeated the first (two lines, one a heading) on the same
\* instance, after a different document was parsed on it in between
C4_Witness ==
    /\ Done(1) /\ Done(2) /\ Done(3)
    /\ call[2].self = call[1].self /\ call[3].self = call[1].self
    /\ call[3].consumed = call[1].consumed
    /\ call[2].consumed # call[1].consumed
    /\ call[2].consumed # <<>>
    /\ Len(call[1].consumed) >= 2
    /\ Cardinality(DOMAIN call[3].result) >= 2

\* the objects a registry maps its keys to
Nodes(registry) == {registry[k] : k \in DOMAIN registry}

\* C5: when two parse calls for different documents interleave, on two parser
\* instances or on one, the registry each call returned holds exactly the nodes
\* of its own document and no node of the other.
C5_ConcurrentIsolation ==
    \A c \in Calls :
        Done(c) =>
            /\ Nodes(dicts[call[c].ret_registry]) \subseteq call[c].created
            /\ DOMAIN dicts[call[c].ret_registry] =
                   {heap[r].id : r \in call[c].created}

\* C6: a parse call starts from an empty registry, leaves the registry an earlier
\* call on the same instance returned as it was, and returns no node of an earlier
\* document.
C6_FreshRegistryPerParse ==
    \A c \in Calls :
        /\ call[c].pc = "create" => RegistryOf(c) = <<>>
        /\ Done(c) =>
            /\ View(dicts[call[c].ret_registry], heap) = call[c].result
            /\ Nodes(dicts[call[c].ret_registry]) \subseteq call[c].created
            /\ \A e \in Calls :
                   (e # c /\ Done(e)) => call[e].ret_registry # call[c].ret_registry

\* a second parse on the instance has returned, after a first that returned a
\* registry of three nodes or more
C6_Witness ==
    /\ Done(1) /\ Done(2)
    /\ call[2].self = call[1].self
    /\ Cardinality(DOMAIN call[1].result) >= 3
    /\ Cardinality(DOMAIN call[2].result) >= 2

\* the nodes of a returned registry that have a sections list
WithSections(res) == {k \in DOMAIN res : res[k].type \in {"act", "part", "division"}}

RECURSIVE Sum(_, _)
Sum(f, S) == IF S = {} THEN 0
             ELSE LET x == CHOOSE y \in S : TRUE IN f[x] + Sum(f, S \ {x})

\* C7: after a parse, every Section's ID is in exactly one sections list, exactly
\* once, and the owner of that list is the node the Section's parent_id names.
C7_SectionListedOnce ==
    \A c \in Calls :
        Done(c) =>
            LET res == call[c].result IN
            \A k \in DOMAIN res :
                res[k].type = "section" =>
                    /\ Sum([o \in WithSections(res) |-> Occurrences(res[o].sections, k)],
                           WithSections(res)) = 1
                    /\ \A o \in WithSections(res) :
                           Occurrences(res[o].sections, k) > 0 => o = res[k].parent_id

\* C8: once the buffered lines were flushed into a Section (its content set and the
\* extractor run on it), its content is never written again and the extractor is
\* never run on it again.
C8_FlushedSectionComplete ==
    [][\A r \in DOMAIN heap :
           (heap[r].type = "section" /\ Occurrences(extract_log, r) > 0) =>
               /\ heap'[r].content = heap[r].content
               /\ Occurrences(extract_log', r) = Occurrences(extract_log, r)]_vars

\* the positions of the Part headings among the lines read
PartHeadings(lines) == {i \in DOMAIN lines : lines[i].shape = "part"}

\* C9: in the Victorian parser a Part heading whose ID is already in the registry
\* creates no node: the Act lists each Part ID once in parts and in children_ids,
\* there is one Part node per part number, the registry keeps it, a repeated
\* heading makes it current again, and the Divisions and Sections attached to the
\* Part stay listed in it.
C9_VictorianPartReuse ==
    \A c \in Calls :
        (InParse(c) /\ Dialect(call[c].self) = "victorian") =>
            LET f == call[c]
                A == heap[f.act]
                D == RegistryOf(c)
                parts == {r \in f.created : heap[r].type = "part"}
            IN  /\ \A r \in parts :
                       /\ Occurrences(A.parts, heap[r].id) = 1
                       /\ Occurrences(A.children_ids, heap[r].id) = 1
                       /\ D[heap[r].id] = r
                /\ \A r1, r2 \in parts :
                       heap[r1].part_number = heap[r2].part_number => r1 = r2
                /\ Cardinality(parts) =
                       Cardinality({f.consumed[i].num : i \in PartHeadings(f.consumed)})
                /\ \A i \in PartHeadings(f.consumed) :
                       f.made[i] = D[part_id(A.id, f.consumed[i].num)]
                /\ \A r \in f.created :
                       /\ heap[r].type = "division" =>
                              Occurrences(heap[D[heap[r].part_id]].divisions,
                                          heap[r].id) > 0
                       /\ (heap[r].type = "section" /\ heap[r].part_id # None
                              /\ heap[r].division_id = None) =>
                              Occurrences(heap[D[heap[r].part_id]].sections,
                                          heap[r].id) > 0

\* a Victorian parse read a Part heading, a Section heading and the same Part
\* heading again
C9_Witness ==
    \E c \in Calls :
        /\ Done(c) /\ Dialect(call[c].self) = "victorian"
        /\ \E i, j, k \in DOMAIN call[c].consumed :
            /\ i < j /\ j < k
            /\ call[c].consumed[i].shape = "part"
            /\ call[c].consumed[j].shape = "section"
            /\ call[c].consumed[k] = call[c].consumed[i]

\* the position of the last Part heading among the lines read, 0 if none
LastPart(lines) ==
    IF PartHeadings(lines) = {} THEN 0
    ELSE CHOOSE i \in PartHeadings(lines) : \A j \in PartHeadings(lines) : j <= i

\* a Part heading was read and no Division heading after it
PartOpenNoDivision(lines) ==
    /\ LastPart(lines) # 0
    /\ \A j \in DOMAIN lines : j > LastPart(lines) => lines[j].shape # "division"

\* C10: a Part heading makes a Part node whose parent is the Act current and sets
\* the Division cursor to none; a Section heading that follows a Part heading with
\* no Division heading in between gets no division_id and is appended to that
\* Part's sections, and no Division changes.
C10_PartResetsDivision ==
    [][\A c \in Calls :
           (call[c].pc = "loop" /\ Len(call[c].consumed') = Len(call[c].consumed) + 1) =>
               LET f == call[c]
                   n == Len(f.consumed) + 1
                   line == call[c].consumed'[n]
                   made == call[c].made'[n]
               IN  /\ line.shape = "part" =>
                          /\ call[c].current_division' = NoRef
                          /\ made # NoRef
                          /\ call[c].current_part' = made
                          /\ heap'[made].type = "part"
                          /\ heap'[made].part_number = line.num
                          /\ heap'[made].parent_id = heap[f.act].id
                   /\ (line.shape = "section" /\ PartOpenNoDivision(f.consumed)) =>
                          LET p == f.made[LastPart(f.consumed)] IN
                          /\ heap'[made].type = "section"
                          /\ heap'[made].division_id = None
                          /\ heap'[made].part_id = heap[p].id
                          /\ heap'[made].parent_id = heap[p].id
                          /\ heap'[p].sections = Append(heap[p].sections, heap'[made].id)
                          /\ \A r \in DOMAIN heap :
                                 heap[r].type = "division" => heap'[r] = heap[r]]_vars

\* a parse read a Part heading, a Division heading, another Part heading and then
\* a Section heading
C10_Witness ==
    \E c \in Calls :
        LET lines == call[c].consumed IN
        /\ Len(lines) >= 4
        /\ \E i, j, k \in DOMAIN lines :
            /\ i < j /\ j < k /\ k < Len(lines)
            /\ lines[i].shape = "part" /\ lines[j].shape = "division"
            /\ lines[k].shape = "part" /\ lines[k].num # lines[i].num
            /\ lines[Len(lines)].shape = "section"
            /\ PartOpenNoDivision(SubSeq(lines, 1, Len(lines) - 1))
            /\ call[c].current_section # NoRef

\* C11: a Division heading met while no Part is open is a no-op: the Act and the
\* registry returned for a document with such lines are equal to those returned
\* for the same document with those lines removed.
C11_OrphanDivisionNoOp ==
    (harness.mode = "drop" /\ Done(1) /\ Done(2)) =>
        /\ call[2].result = call[1].result
        /\ heap[call[2].ret_act] = heap[call[1].ret_act]

\* C12: the part number in a Part node's ID is normalized: a Federal heading that
\* writes the number 1-1 with the ASCII hyphen, the non-breaking hyphen or the em
\* dash yields the Part ID that ends in part-1-1.
C12_PartNumberNormalized ==
    \A c \in Calls :
        (InParse(c) /\ Dialect(call[c].self) = "federal") =>
            \A i \in DOMAIN call[c].consumed :
                call[c].consumed[i] \in FederalPartLines =>
                    heap[call[c].made[i]].id = part_id(heap[call[c].act].id, "1-1")

\* the class of the i-th line a call read
KindAt(f, i) == LineKind(Dialect(f.self), f.consumed[i])

\* the positions of the headings, and of the Section headings, among the lines read
Headings(f) ==
    {i \in DOMAIN f.consumed : KindAt(f, i) \in {"part", "division", "section"}}
SectionHeadings(f) == {i \in DOMAIN f.consumed : KindAt(f, i) = "section"}

\* the greatest position of a set of positions, 0 if there is none
LastIndex(S) == IF S = {} THEN 0 ELSE CHOOSE i \in S : \A j \in S : j <= i

\* the content lines read at the positions from..to
ContentBetween(f, from, to) ==
    SelectSeq(SubSeq(f.consumed, from, to),
              LAMBDA l : LineKind(Dialect(f.self), l) = "content")

\* the position of the first Section heading after position i, or the end
NextSection(f, i) ==
    IF \E j \in SectionHeadings(f) : j > i
    THEN CHOOSE j \in SectionHeadings(f) :
             j > i /\ \A k \in SectionHeadings(f) : k > i => j <= k
    ELSE Len(f.consumed) + 1

\* C13: at end of input the content lines read since the last heading are set as
\* the content of the last opened Section and the extractor is invoked on that
\* Section exactly once (nothing happens when there is no such line or Section);
\* a Section heading followed by no content line yields a Section with empty
\* content and no Subsection or Paragraph.
C13_EndOfInputFlush ==
    /\ [][\A c \in Calls :
              (call[c].pc = "loop" /\ call[c].pc' = "return") =>
                  LET f == call[c]
                      sec == IF SectionHeadings(f) = {} THEN NoRef
                             ELSE f.made[LastIndex(SectionHeadings(f))]
                      buffered == ContentBetween(f, LastIndex(Headings(f)) + 1,
                                                 Len(f.consumed))
                  IN  IF sec # NoRef /\ buffered # <<>>
                      THEN /\ heap'[sec].type = "section"
                           /\ heap'[sec].content = buffered
                           /\ extract_log' = Append(extract_log, sec)
                      ELSE /\ heap' = heap
                           /\ dicts' = dicts
                           /\ extract_log' = extract_log]_vars
    /\ [](\A c \in Calls :
              InParse(c) =>
                  \A i \in SectionHeadings(call[c]) :
                      ContentBetween(call[c], i + 1, NextSection(call[c], i) - 1) = <<>>
                          => /\ heap[call[c].made[i]].content = <<>>
                             /\ heap[call[c].made[i]].subsections = <<>>
                             /\ heap[call[c].made[i]].children_ids = <<>>)

\* a parse has returned after flushing at end of input a Section with a marker
\* line, and it also read a Section heading followed by no content line
C13_Witness ==
    \E c \in Calls :
        LET f == call[c] IN
        /\ Done(c)
        /\ Len(f.consumed) >= 3
        /\ KindAt(f, Len(f.consumed)) = "content"
        /\ f.current_section # NoRef
        /\ heap[f.current_section].content # <<>>
        /\ heap[f.current_section].children_ids # <<>>
        /\ extract_log # <<>> /\ extract_log[Len(extract_log)] = f.current_section
        /\ \E i \in SectionHeadings(f) :
               /\ f.made[i] # f.current_section
               /\ heap[f.made[i]].content = <<>>

\* C14: parse (both dialects) raises the missing-metadata error whenever one of
\* canonical_id, jurisdiction, year, title is absent from the metadata: the error
\* names exactly the absent keys, it is raised before the content is decoded (also
\* for content that is not valid UTF-8) or parsed, and no Act or registry is
\* returned.
C14_MissingMetadataRaises ==
    \A c \in Calls :
        LET f == call[c]
            absent == RequiredKeys \ DOMAIN f.metadata
        IN  (f.pc \notin {"idle", "validate"} /\ absent # {}) =>
                /\ f.pc = "raised"
                /\ f.error.type = "ValueError"
                /\ {f.error.keys[i] : i \in DOMAIN f.error.keys} = absent
                /\ Len(f.error.keys) = Cardinality(absent)
                /\ f.act = NoRef /\ f.created = {} /\ f.consumed = <<>>
                /\ f.ret_act = NoRef /\ f.ret_registry = NoRef /\ f.result = <<>>

\* a Victorian parse of content that is not valid UTF-8, with metadata that lacks
\* two keys, has raised
C14_Witness ==
    \E c \in Calls :
        /\ call[c].pc = "raised"
        /\ Dialect(call[c].self) = "victorian"
        /\ ~call[c].valid_utf8
        /\ DOMAIN call[c].metadata = {"jurisdiction", "title"}
        /\ call[c].error.keys = <<"canonical_id", "year">>

\* how far a call has got
Rank(pc) ==
    CASE pc = "idle" -> 0 [] pc = "validate" -> 1 [] pc = "decode" -> 2
      [] pc = "create" -> 3 [] pc = "loop" -> 4 [] pc = "return" -> 5
      [] OTHER -> 6

\* C15: for content that is valid UTF-8 and a complete metadata record, parse
\* raises no error whatever the lines are, every step of it reads the next line
\* or moves on (so it terminates with the document), it returns an Act and a
\* registry that holds that Act, and a line that matches no heading pattern is
\* treated as content: it creates no node and joins the buffer of the open
\* Section.
C15_BestEffortNoError ==
    /\ [](\A c \in Calls :
              (call[c].valid_utf8 /\ DOMAIN call[c].metadata = RequiredKeys) =>
                  /\ call[c].pc # "raised"
                  /\ call[c].error.type = None
                  /\ Done(c) =>
                         /\ call[c].ret_act # NoRef /\ call[c].ret_registry # NoRef
                         /\ heap[call[c].ret_act].type = "act"
                         /\ call[c].metadata.canonical_id \in DOMAIN call[c].result
                         /\ call[c].result[call[c].metadata.canonical_id]
                                = heap[call[c].ret_act])
    /\ [][\A c \in Calls :
              call[c]' # call[c] =>
                  /\ \/ Rank(call[c].pc') > Rank(call[c].pc)
                     \/ /\ call[c].pc = "loop" /\ call[c].pc' = "loop"
                        /\ Len(call[c].consumed') = Len(call[c].consumed) + 1
                  /\ (call[c].pc = "loop" /\ call[c].pc' = "loop"
                        /\ KindAt(call[c]', Len(call[c].consumed')) = "content") =>
                         /\ heap' = heap /\ dicts' = dicts
                         /\ call[c].made'[Len(call[c].consumed')] = NoRef
                         /\ call[c].content_lines' =
                                IF call[c].current_section # NoRef
                                THEN Append(call[c].content_lines,
                                            call[c].consumed'[Len(call[c].consumed')])
                                ELSE call[c].content_lines]_vars

\* a parse has returned for a document with a Division heading outside a Part, a
\* marker line before any Section and the same Section heading twice
C15_Witness ==
    \E c \in Calls :
        LET f == call[c] IN
        /\ Done(c)
        /\ OrphanDivisions(f) # {}
        /\ \E i, j \in SectionHeadings(f) : i < j /\ f.consumed[i] = f.consumed[j]
        /\ \E i \in DOMAIN f.consumed :
               /\ f.consumed[i].shape \in {"subsec", "para"}
               /\ \A j \in SectionHeadings(f) : i < j
        /\ f.ret_act # NoRef

\* C16: as long as a parse has read no heading line (an empty document included),
\* the Act has empty parts, sections and children_ids and the registry's only key
\* is the Act's ID; as long as it has read no Section heading, no content line is
\* buffered or stored in a node (the nodes are the Act, Parts and Divisions, with
\* empty content) and the extractor has not run.
C16_NoHeadingNoChildren ==
    \A c \in Calls :
        InParse(c) =>
            LET f == call[c]
                A == heap[f.act]
            IN  /\ Headings(f) = {} =>
                       /\ A.parts = <<>> /\ A.sections = <<>> /\ A.children_ids = <<>>
                       /\ f.created = {f.act}
                       /\ DOMAIN RegistryOf(c) = {A.id}
                       /\ Done(c) => DOMAIN f.result = {A.id}
                /\ SectionHeadings(f) = {} =>
                       /\ f.content_lines = <<>>
                       /\ extract_log = <<>>
                       /\ \A r \in f.created :
                              /\ heap[r].type \in {"act", "part", "division"}
                              /\ heap[r].content = ""

\* a parse has returned for a document of three lines or more, none of them a
\* heading and two or more of them content lines
C16_Witness ==
    \E c \in Calls :
        LET f == call[c] IN
        /\ Done(c)
        /\ Len(f.consumed) >= 3
        /\ Headings(f) = {}
        /\ Cardinality({i \in DOMAIN f.consumed : KindAt(f, i) = "content"}) >= 2
        /\ DOMAIN f.result = {f.metadata.canonical_id}

\* the Section objects a call built
SecNodes(c) == {r \in call[c].created : heap[r].type = "section"}

\* the lines of a Section's content the dialect's extractor takes as a Subsection
\* marker, as a Paragraph marker, and as plain text
IsSubsecMarker(dialect, l) ==
    /\ Stripped(l) # "" /\ ~(dialect = "victorian" /\ is_amendment_note(l))
    /\ subsec_match(dialect, l)
IsParaMarker(dialect, l) ==
    /\ Stripped(l) # "" /\ ~(dialect = "victorian" /\ is_amendment_note(l))
    /\ ~subsec_match(dialect, l) /\ para_match(dialect, l)
    /\ (dialect = "federal" \/ ~_is_roman_numeral(l.num))
IsPlainText(dialect, l) ==
    /\ Stripped(l) # "" /\ ~(dialect = "victorian" /\ is_amendment_note(l))
    /\ ~IsSubsecMarker(dialect, l) /\ ~IsParaMarker(dialect, l)

\* the position of the last Subsection marker before position k, 0 if none
OpenSubsection(dialect, L, k) ==
    LastIndex({j \in 1..(k - 1) : IsSubsecMarker(dialect, L[j])})

Has(list, x) == \E i \in DOMAIN list : list[i] = x

\* C17: for the content of a Section, each Subsection marker (n) has created a
\* Subsection section.id/n listed in the Section's subsections and children_ids and
\* has closed the open Paragraph (text after it goes to the Subsection, not to the
\* Paragraph); each Paragraph marker has created a Paragraph under the most
\* recently opened Subsection (id subsection.id/letters, listed in its paragraphs
\* and children_ids), or under the Section when none is open (id
\* section.id/letters, no subsection_id, listed in the Section's children_ids).
C17_MarkersCreateNodes ==
    \A c \in Calls :
        InParse(c) =>
            \A s \in SecNodes(c) :
                LET L == heap[s].content
                    sid == heap[s].id
                    dl == Dialect(call[c].self)
                    made == call[c].created
                IN  \A k \in DOMAIN L :
                    /\ IsSubsecMarker(dl, L[k]) =>
                           LET id == subsec_id(sid, L[k].num) IN
                           /\ Has(heap[s].subsections, id)
                           /\ Has(heap[s].children_ids, id)
                           /\ \E r \in made :
                                  /\ heap[r].type = "subsection" /\ heap[r].id = id
                                  /\ heap[r].section_id = sid /\ heap[r].parent_id = sid
                                  /\ heap[r].subsection_number = L[k].num
                           /\ (/\ k = 2 /\ IsParaMarker(dl, L[1])
                               /\ \A j \in (k + 1)..Len(L) : IsPlainText(dl, L[j])) =>
                                  /\ \E r \in made :
                                         /\ heap[r].id = para_id(sid, L[1].num)
                                         /\ heap[r].content = InitialContent(dl, L[1])
                                  /\ \E r \in made :
                                         /\ heap[r].id = id
                                         /\ heap[r].content =
                                                IF k = Len(L) THEN InitialContent(dl, L[k])
                                                ELSE InitialContent(dl, L[k]) \o " " \o
                                                     JoinSpace([j \in 1..(Len(L) - k) |->
                                                                   Stripped(L[k + j])])
                    /\ IsParaMarker(dl, L[k]) =>
                           LET j == OpenSubsection(dl, L, k)
                               oid == IF j = 0 THEN sid ELSE subsec_id(sid, L[j].num)
                               pid == para_id(oid, L[k].num)
                           IN  /\ \E r \in made :
                                      /\ heap[r].type = "paragraph" /\ heap[r].id = pid
                                      /\ heap[r].parent_id = oid
                                      /\ heap[r].subsection_id = (IF j = 0 THEN None ELSE oid)
                                      /\ heap[r].paragraph_letter = L[k].num
                               /\ IF j = 0 THEN Has(heap[s].children_ids, pid)
                                  ELSE \E o \in made :
                                          /\ heap[o].type = "subsection" /\ heap[o].id = oid
                                          /\ Has(heap[o].paragraphs, pid)
                                          /\ Has(heap[o].children_ids, pid)

\* a Section's content was a Paragraph marker, a Subsection marker and a text line
C17_Witness ==
    \E c \in Calls :
        /\ Done(c)
        /\ \E s \in SecNodes(c) :
               LET L == heap[s].content
                   dl == Dialect(call[c].self)
               IN  /\ Len(L) = 3
                   /\ IsParaMarker(dl, L[1]) /\ IsSubsecMarker(dl, L[2])
                   /\ IsPlainText(dl, L[3])
                   /\ Len(heap[s].children_ids) = 2

\* every plain-text content line a call read comes before the first marker line of
\* its Section: it is section-level preface text
PrefaceOnly(f) ==
    LET dl == Dialect(f.self) IN
    \A i \in DOMAIN f.consumed :
        (KindAt(f, i) = "content" /\ IsPlainText(dl, f.consumed[i])) =>
            \A j \in (LastIndex({h \in SectionHeadings(f) : h < i}) + 1)..(i - 1) :
                ~(KindAt(f, j) = "content"
                    /\ (IsSubsecMarker(dl, f.consumed[j]) \/ IsParaMarker(dl, f.consumed[j])))

\* C18: plain-text lines that precede the first Subsection or Paragraph marker of
\* a Section are discarded: when a document has no other plain-text line, every
\* Subsection and Paragraph holds just the text of its own marker line.
C18_PrefaceDiscarded ==
    \A c \in Calls :
        (InParse(c) /\ PrefaceOnly(call[c])) =>
            \A r \in call[c].created :
                heap[r].type \in {"subsection", "paragraph"} =>
                    \E i \in DOMAIN call[c].consumed :
                        /\ call[c].consumed[i].shape \in {"subsec", "para"}
                        /\ heap[r].content =
                               InitialContent(Dialect(call[c].self), call[c].consumed[i])

\* C19: the Victorian extractor creates no Paragraph for a marker whose letters
\* are i, ii, iii, iv, v, vi, vii, viii, ix or x: the line is content, appended to
\* the open Paragraph; for the markers a, b, c, aa, ba, z it creates a Paragraph
\* keyed by the letters.
C19_RomanNumeralsAreContent ==
    \A c \in Calls :
        (InParse(c) /\ Dialect(call[c].self) = "victorian") =>
            /\ \A r \in call[c].created :
                   heap[r].type = "paragraph" => heap[r].paragraph_letter \notin RomanLetters
            /\ \A s \in SecNodes(c) :
                   LET L == heap[s].content
                       sid == heap[s].id
                       owner(k) ==
                           LET j == OpenSubsection("victorian", L, k)
                           IN  IF j = 0 THEN sid ELSE subsec_id(sid, L[j].num)
                   IN  \A k \in DOMAIN L :
                       /\ (L[k].shape = "para" /\ L[k].num \in AlphabeticLetters) =>
                              /\ para_id(owner(k), L[k].num) \in DOMAIN RegistryOf(c)
                              /\ \E r \in call[c].created :
                                     /\ heap[r].type = "paragraph"
                                     /\ heap[r].id = para_id(owner(k), L[k].num)
                                     /\ heap[r].paragraph_letter = L[k].num
                       /\ (/\ L[k].shape = "para" /\ L[k].num \in RomanLetters
                           /\ k = Len(L) /\ k >= 2
                           /\ L[k - 1].shape = "para" /\ L[k - 1].num \in AlphabeticLetters
                           /\ \A j \in 1..(k - 2) :
                                  \/ IsSubsecMarker("victorian", L[j])
                                  \/ IsParaMarker("victorian", L[j])) =>
                              \E r \in call[c].created :
                                  /\ heap[r].id = para_id(owner(k - 1), L[k - 1].num)
                                  /\ heap[r].content =
                                         InitialContent("victorian", L[k - 1]) \o " "
                                             \o Stripped(L[k])

\* a Victorian parse has returned a Section whose content was the marker (ba)
\* followed by the marker (viii)
C19_Witness ==
    \E c \in Calls :
        /\ Done(c) /\ Dialect(call[c].self) = "victorian"
        /\ \E s \in SecNodes(c) :
               /\ Len(heap[s].content) = 2
               /\ heap[s].content[1] = Line("para", "ba", "y")
               /\ heap[s].content[2] = Line("para", "viii", "y")
               /\ heap[s].children_ids = <<para_id(heap[s].id, "ba")>>

\* what a line names: the kind of node its heading or marker stands for, and the
\* number or letters
LineLabel(dialect, line) ==
    LET kind == LineKind(dialect, line) IN
    IF kind \in {"part", "division", "section"} THEN <<kind, line.num>>
    ELSE IF kind = "content" /\ IsSubsecMarker(dialect, line)
        THEN <<"subsection", line.num>>
    ELSE IF kind = "content" /\ IsParaMarker(dialect, line)
        THEN <<"paragraph", line.num>>
    ELSE <<"none", "">>

\* the same for a node
NodeLabel(n) ==
    CASE n.type = "part" -> <<"part", n.part_number>>
      [] n.type = "division" -> <<"division", n.division_number>>
      [] n.type = "section" -> <<"section", n.section_number>>
      [] n.type = "subsection" -> <<"subsection", n.subsection_number>>
      [] n.type = "paragraph" -> <<"paragraph", n.paragraph_letter>>
      [] OTHER -> <<"act", "">>

\* whether the elements of a occur in b in the same order
RECURSIVE InOrderOf(_, _)
InOrderOf(a, b) ==
    IF a = <<>> THEN TRUE
    ELSE IF b = <<>> THEN FALSE
    ELSE IF Head(a) = Head(b) THEN InOrderOf(Tail(a), Tail(b))
    ELSE InOrderOf(a, Tail(b))

\* the child lists of a node
ChildLists(n) ==
    {n.children_ids}
        \cup (IF n.type = "act" THEN {n.parts, n.sections} ELSE {})
        \cup (IF n.type = "part" THEN {n.divisions, n.sections} ELSE {})
        \cup (IF n.type = "division" THEN {n.sections} ELSE {})
        \cup (IF n.type = "section" THEN {n.subsections} ELSE {})
        \cup (IF n.type = "subsection" THEN {n.paragraphs} ELSE {})

\* C20: for every node a parse returned, children_ids and the typed child lists
\* name the children in the order in which their headings or markers occur in
\* the document.
C20_ChildrenInDocumentOrder ==
    \A c \in Calls :
        Done(c) =>
            LET f == call[c]
                res == f.result
                doc == [i \in DOMAIN f.consumed |->
                           LineLabel(Dialect(f.self), f.consumed[i])]
            IN  \A k \in DOMAIN res :
                    \A list \in ChildLists(res[k]) :
                        InOrderOf([j \in DOMAIN list |-> NodeLabel(res[list[j]])], doc)

\* a parse has returned a node that lists three different children
C20_Witness ==
    \E c \in Calls :
        /\ Done(c)
        /\ \E k \in DOMAIN call[c].result :
               LET ids == call[c].result[k].children_ids IN
               /\ Len(ids) >= 3
               /\ Cardinality({ids[i] : i \in DOMAIN ids}) >= 3

---------------------------------------------------------------------------
\* Canonical identifiers.

\* C21: for every string s that parse_canonical_id accepts, build_canonical_id
\* applied to the jurisdiction, code_type, year and section of the parsed ID
\* returns exactly s.
C21_BuildParseRoundTrip ==
    canon.pc \in {"built", "done"} =>
        /\ canon.built.raised = None
        /\ canon.built.value = canon.s

\* the condition in words: the lowercased string is a slash, then three or four
\* segments between slashes, a jurisdiction and a code type of the closed sets, a
\* year of 4 to 6 digits and, if there is a fourth, a section of [a-z0-9.]+
WellFormedID(s) ==
    LET g == pattern_groups(lower(s)) IN
    /\ g.matched
    /\ g.jurisdiction \in VALID_JURISDICTIONS
    /\ g.code_type \in VALID_CODE_TYPES

\* C22: parse_canonical_id returns a CanonicalID exactly when the lowercased
\* input is well formed (leading slash, three or four segments, jurisdiction and
\* code type of the closed sets, year of 4 to 6 digits, optional section of
\* [a-z0-9.]+) and the absent value otherwise, and validate_canonical_id is true
\* exactly when the parse is not absent.
C22_ParseAcceptsExactlyWellFormed ==
    canon.pc \in {"validated", "built", "done"} =>
        /\ (canon.parsed # NoCanonicalID) <=> WellFormedID(canon.s)
        /\ canon.valid <=> (canon.parsed # NoCanonicalID)

\* the strings that name the document of cid with no section or another one
SectionVariants(cid) ==
    LET base == "/" \o cid.jurisdiction \o "/" \o cid.code_type \o "/" \o cid.year
    IN  {base \o tail : tail \in {"", "/s21", "/S21", "/reg3.01", "/s1"}}

\* C23: two valid canonical IDs that differ only in their section (present,
\* absent or different) have the same cache_filename, metadata_filename and
\* checksum_filename.
C23_FilenamesIgnoreSection ==
    canon.pc = "done" =>
        \A t \in SectionVariants(canon.parsed) :
            LET other == parse_canonical_id(t) IN
            (/\ other # NoCanonicalID
             /\ other.jurisdiction = canon.parsed.jurisdiction
             /\ other.code_type = canon.parsed.code_type
             /\ other.year = canon.parsed.year) =>
                /\ cache_filename(other) = canon.files.cache
                /\ metadata_filename(other) = canon.files.metadata
                /\ checksum_filename(other) = canon.files.checksum

\* the filenames of an ID with a section have been derived, and an ID of the same
\* document with another section and one with none are valid too
C23_Witness ==
    /\ canon.pc = "done"
    /\ canon.parsed.section = "reg3.01"
    /\ canon.files.cache = "ohs-2009.txt"
    /\ \E t, u \in SectionVariants(canon.parsed) :
           /\ parse_canonical_id(t) # NoCanonicalID
           /\ parse_canonical_id(u) # NoCanonicalID
           /\ parse_canonical_id(t).section = None
           /\ parse_canonical_id(u).section = "s21"

\* C24: every key of a registry returned by parse, for metadata whose
\* canonical_id is a valid canonical ID, is a valid canonical ID that round-trips:
\* validate_canonical_id accepts it and full_id of its parse is the same string.
C24_RegistryKeysAreCanonical ==
    \A c \in Calls :
        (Done(c) /\ validate_canonical_id(call[c].metadata.canonical_id)) =>
            \A k \in DOMAIN call[c].result :
                /\ validate_canonical_id(k)
                /\ full_id(parse_canonical_id(k)) = k

---------------------------------------------------------------------------
\* Cross-references.

\* the pieces that are in-Act citations of the forms "section N", "s. N" and
\* "s N", and the N each cites
CitedSection(piece) ==
    CASE piece = "see section 21" -> "21"
      [] piece = "s 21" -> "21"
      [] piece = "s. 7" -> "7"
      [] OTHER -> None

\* C25: for every in-Act citation "section N", "s. N" or "s N" in the text,
\* parse_cross_references returns a CrossReference with target source + "/s" + N
\* and confidence 0.9; the text "see section 21" with source
\* "/au-victoria/ohs/2004" yields exactly one reference, to
\* "/au-victoria/ohs/2004/s21".
C25_SectionCitationsResolved ==
    xref.pc \in {"parsed", "done"} =>
        /\ \A i \in 1..Len(xref.pieces) :
               CitedSection(xref.pieces[i]) # None =>
                   \E n \in 1..Len(xref.cross_refs) :
                       /\ xref.cross_refs[n].target_canonical_id =
                              xref.source \o "/s" \o CitedSection(xref.pieces[i])
                       /\ xref.cross_refs[n].confidence = 9
        /\ xref.content = "see section 21" =>
               /\ Len(xref.cross_refs) = 1
               /\ xref.cross_refs[1].target_canonical_id = "/au-victoria/ohs/2004/s21"
               /\ xref.cross_refs[1].confidence = 9

\* the texts matched by one citation pattern, in text order
CitationsOf(kind, content) ==
    LET ms == finditer(kind, content, 1) IN
    [n \in 1..Len(ms) |-> group0(content, ms[n])]

\* C26: parse_cross_references returns one entry for every match of each citation
\* kind (section, named Act, Part, Division), pass after pass and in text order
\* within a pass, with no deduplication.
C26_OneEntryPerMatch ==
    xref.pc \in {"parsed", "done"} =>
        [n \in 1..Len(xref.cross_refs) |-> xref.cross_refs[n].citation_text] =
            CitationsOf("section", xref.content)
                \o CitationsOf("act_reference", xref.content)
                \o CitationsOf("part", xref.content)
                \o CitationsOf("division", xref.content)

\* the first place of target among the references returned
FirstOccurrence(target, cross_refs) ==
    CHOOSE n \in 1..Len(cross_refs) :
        /\ cross_refs[n].target_canonical_id = target
        /\ \A k \in 1..(n - 1) : cross_refs[k].target_canonical_id # target

\* C27: for every text and max_results >= 0, find_related_sections returns a list
\* with no duplicates and at most max_results elements, each the non-null target
\* of a reference with confidence >= 0.7, in the order of first occurrence in the
\* output of parse_cross_references.
C27_RelatedBoundedUniqueOrdered ==
    xref.pc = "done" =>
        /\ Len(xref.related) <= xref.max_results
        /\ \A a, b \in 1..Len(xref.related) : a # b => xref.related[a] # xref.related[b]
        /\ \A a \in 1..Len(xref.related) :
               \E n \in 1..Len(xref.cross_refs) :
                   /\ xref.cross_refs[n].target_canonical_id = xref.related[a]
                   /\ xref.cross_refs[n].confidence >= 7
        /\ \A a, b \in 1..Len(xref.related) :
               a < b => FirstOccurrence(xref.related[a], xref.cross_refs)
                            < FirstOccurrence(xref.related[b], xref.cross_refs)

---------------------------------------------------------------------------
\* Parser dispatch.

\* the places in the list of the parsers that accept the last lookup
Accepting(last) ==
    {i \in 1..Len(last.before) : can_parse(last.before[i], last.url, last.content_type)}

\* C28: get_parser returns the earliest-registered parser whose can_parse accepts
\* (url, content_type), whatever later ones accept too; it raises ValueError
\* exactly when no registered parser accepts; it never changes the list of
\* registered parsers.
C28_FirstAcceptingParser ==
    dispatch.last.called =>
        LET last == dispatch.last IN
        /\ (last.raised = "ValueError") <=> (Accepting(last) = {})
        /\ Accepting(last) # {} =>
               /\ last.raised = None
               /\ \E i \in Accepting(last) :
                      /\ \A j \in Accepting(last) : i <= j
                      /\ last.returned = last.before[i]
        /\ last.after = last.before

\* a lookup that the first registered parser refuses and two later, different
\* parsers accept has returned the earlier of the two
C28_Witness ==
    /\ dispatch.last.called
    /\ Accepting(dispatch.last) = {2, 3}
    /\ dispatch.last.before[2] # dispatch.last.before[3]
    /\ dispatch.last.returned = dispatch.last.before[2]

---------------------------------------------------------------------------
\* Cache.

\* C29: after write_content(id, x) has completed, whatever writes came before,
\* exists(id) is true, read_content(id) returns x and verify_checksum(id) is true;
\* once the content file has been changed without the checksum being rewritten,
\* verify_checksum(id) is false; for a document never written read_content
\* returns None and verify_checksum is false.
C29_WriteThenReadAndVerify ==
    cache_call.probe.called =>
        LET probe == cache_call.probe IN
        /\ (~probe.written.is_none /\ probe.bytes = probe.written) =>
               /\ probe.exists
               /\ probe.read = probe.written
               /\ probe.verified
        /\ (~probe.written.is_none /\ probe.bytes # probe.written) => ~probe.verified
        /\ probe.written.is_none => (probe.read.is_none /\ ~probe.verified)

\* the document of the ID of the last fetch was cached with a checksum that
\* verifies when fetch was called
CachedBefore(f) == is_cached(f.before, f.id)

\* C30: fetch(id) with force false returns the cached content without asking the
\* source exactly when the document of id (its section ignored) is cached and its
\* checksum verifies; otherwise it asks the source, writes the result to the
\* cache, and is_cached(id) is true afterwards; a failed download leaves the
\* cache unchanged.
C30_FetchUsesCacheOrDownloads ==
    (fetch_call.called /\ ~fetch_call.force /\ parsed(fetch_call.id) # NoCanonicalID) =>
        LET f == fetch_call
            base_canonical == parsed(base_id_of(parsed(f.id)))
        IN  /\ CachedBefore(f) =>
                   /\ ~f.asked
                   /\ f.raised = None
                   /\ f.returned = read_content(f.before, base_canonical)
                   /\ f.after = f.before
            /\ ~CachedBefore(f) =>
                   /\ f.asked
                   /\ f.answer.ok =>
                          /\ f.raised = None
                          /\ f.returned = SomeContent(f.answer.content)
                          /\ read_content(f.after, base_canonical) = f.returned
                          /\ f.is_cached_after
                   /\ ~f.answer.ok =>
                          /\ f.raised = "LegislationFetchError"
                          /\ f.after = f.before

\* a line the extractor takes as a Subsection or a Paragraph marker
IsMarker(dialect, l) == IsSubsecMarker(dialect, l) \/ IsParaMarker(dialect, l)

\* the plain-text lines among L[from..to], stripped
PlainBetween(dialect, L, from, to) ==
    LET keep == SelectSeq([j \in 1..(to - from + 1) |-> L[from + j - 1]],
                          LAMBDA l : IsPlainText(dialect, l))
    IN  [j \in 1..Len(keep) |-> Stripped(keep[j])]

\* the position of the first marker after position k, Len(L) + 1 if there is none
NextMarker(dialect, L, k) ==
    IF \E j \in (k + 1)..Len(L) : IsMarker(dialect, L[j])
    THEN CHOOSE j \in (k + 1)..Len(L) :
             /\ IsMarker(dialect, L[j])
             /\ \A h \in (k + 1)..(j - 1) : ~IsMarker(dialect, L[h])
    ELSE Len(L) + 1

\* the content of the node marker line m opened, once the lines after are appended
ContentWith(dialect, m, after) ==
    IF after = <<>> THEN InitialContent(dialect, m)
    ELSE InitialContent(dialect, m) \o " " \o JoinSpace(after)

\* the ID of the node that the marker at position k of the content L of the
\* Section sid opens
MarkerNodeId(dialect, sid, L, k) ==
    IF IsSubsecMarker(dialect, L[k]) THEN subsec_id(sid, L[k].num)
    ELSE LET j == OpenSubsection(dialect, L, k)
         IN  para_id(IF j = 0 THEN sid ELSE subsec_id(sid, L[j].num), L[k].num)

\* the plain-text lines before the first marker of L, when position k is that marker
PrefaceBefore(dialect, L, k) ==
    IF \E j \in 1..(k - 1) : IsMarker(dialect, L[j]) THEN <<>>
    ELSE PlainBetween(dialect, L, 1, k - 1)

C32_RetryBounded ==
    /\ [](LET n == Len(download.responses) IN
          /\ n <= download.max_retries
          /\ download.pc = "returned" =>
                 /\ n >= 1 /\ passes(download.responses[n])
                 /\ \A i \in 1..(n - 1) : ~passes(download.responses[i])
                 /\ download.returned = SomeContent(download.responses[n].content)
                 /\ strip(download.returned.text) # ""
          /\ download.pc = "raised" =>
                 /\ n = download.max_retries
                 /\ \A i \in 1..n : ~passes(download.responses[i])
                 /\ download.raised.type = "LegislationFetchError"
                 /\ n >= 1 => download.raised = error_of(download.responses[n], n))
    /\ <>(download.pc \in {"returned", "raised"})

\* three attempts failed, the last with an empty response, and the call raised
C32_Witness ==
    /\ download.pc = "raised"
    /\ download.max_retries = 3
    /\ Len(download.responses) = 3
    /\ download.responses[1].kind = "HTTPStatusError"
    /\ download.responses[3] = [kind |-> "text", content |-> ""]
    /\ download.raised.attempt = 3

NoRepeat(list) == \A i, j \in DOMAIN list : list[i] = list[j] => i = j

\* C34: after a parse, no child list of a node of the registry (children_ids,
\* parts, divisions, sections, subsections, paragraphs) holds an ID twice.
C34_NoRepeatedChild ==
    \A c \in Calls :
        Done(c) =>
            \A k \in DOMAIN call[c].result :
                \A list \in ChildLists(call[c].result[k]) : NoRepeat(list)

\* C35: while _parse_hierarchy runs, a Division is open only if a Part is open
\* and the Division's part_id is that Part's id; in the registry returned, a
\* Section with a division_id has the part_id of that Division, and the parent of
\* every Division is a Part of the registry.
C35_DivisionWithinPart ==
    \A c \in Calls :
        /\ InParse(c) =>
               (call[c].current_division # NoRef =>
                   /\ call[c].current_part # NoRef
                   /\ heap[call[c].current_division].part_id =
                          heap[call[c].current_part].id)
        /\ Done(c) =>
               \A k \in DOMAIN call[c].result :
                   LET n == call[c].result[k] IN
                   /\ (n.type = "section" /\ n.division_id # None) =>
                          /\ n.division_id \in DOMAIN call[c].result
                          /\ n.part_id = call[c].result[n.division_id].part_id
                   /\ n.type = "division" =>
                          /\ n.parent_id \in DOMAIN call[c].result
                          /\ call[c].result[n.parent_id].type = "part"

\* a parse has ended with a Division open, after a second Part was opened, and has
\* returned a Section of that Division
C35_Witness ==
    \E c \in Calls :
        /\ Done(c)
        /\ call[c].current_division # NoRef
        /\ Cardinality({k \in DOMAIN call[c].result :
                            call[c].result[k].type = "part"}) = 2
        /\ \E k \in DOMAIN call[c].result :
               /\ call[c].result[k].type = "section"
               /\ call[c].result[k].division_id # None

\* C36: in the Victorian parser, when a Division was opened and the only headings
\* read since are Part headings that repeat the Part of that Division, the next
\* Section heading makes a Section of that Division.
C36_RepeatedPartKeepsDivision ==
    \A c \in Calls :
        (InParse(c) /\ Dialect(call[c].self) = "victorian") =>
            LET f == call[c] IN
            \A d, k \in DOMAIN f.consumed :
                (/\ d < k
                 /\ KindAt(f, d) = "division" /\ f.made[d] # NoRef
                 /\ KindAt(f, k) = "section"
                 /\ \A h \in (d + 1)..(k - 1) :
                        /\ KindAt(f, h) \notin {"division", "section"}
                        /\ KindAt(f, h) = "part" =>
                               heap[f.made[h]].id = heap[f.made[d]].part_id
                 /\ \E h \in (d + 1)..(k - 1) : KindAt(f, h) = "part") =>
                    /\ heap[f.made[k]].division_id = heap[f.made[d]].id
                    /\ heap[f.made[k]].parent_id = heap[f.made[d]].id
                    /\ Has(heap[f.made[d]].sections, heap[f.made[k]].id)

---------------------------------------------------------------------------
\* C37: every target_canonical_id that parse_cross_references returns, other
\* than None, for a source that is a valid canonical ID, is a valid canonical
\* ID itself: validate_canonical_id accepts it, also when the citation carries
\* (n)(a) qualifiers or an uppercase letter suffix.
C37_TargetsValid ==
    (xref.pc \in {"parsed", "done"} /\ validate_canonical_id(xref.source)) =>
        \A n \in 1..Len(xref.cross_refs) :
            xref.cross_refs[n].target_canonical_id # None =>
                validate_canonical_id(xref.cross_refs[n].target_canonical_id)

\* C38: every string that build_canonical_id returns without error is a valid
\* canonical ID: validate_canonical_id accepts it and parse_canonical_id
\* returns the jurisdiction, code_type, year and section that were passed to
\* build_canonical_id.
C38_BuiltIsValid ==
    canon.pc = "parsed" =>
        /\ canon.valid
        /\ canon.parsed = CanonicalID(canon.jurisdiction, canon.code_type,
                                      canon.year, canon.section)

\* the files of the document of canonical are those one write_content call of
\* frame f leaves
FilesOfWrite(d, f) ==
    LET canonical == parsed(f.id) IN
    /\ d[get_content_path(canonical)] = write_text(f.content)
    /\ d[get_checksum_path(canonical)] = write_text(_calculate_hash(f.content))
    /\ d[get_metadata_path(canonical)] =
           write_text(metadata_json(canonical, SourceUrl, _calculate_hash(f.content)))

\* C39: when two write_content calls for the same document interleave, once
\* both have completed the content file, the checksum file and the content_hash
\* of the metadata file all belong to the same write, so verify_checksum is true.
C39_InterleavedWritesConsistent ==
    \A v, w \in Writers :
        (/\ v # w
         /\ \A u \in Writers : writers[u].pc = "done"
         /\ get_content_path(parsed(writers[v].id)) = get_content_path(parsed(writers[w].id)))
        => /\ verify_checksum(disk, parsed(writers[w].id))
           /\ \E u \in Writers : FilesOfWrite(disk, writers[u])

====
